---- MODULE Spec2Model ----
(***************************************************************************)
(* Model of the recommender core of app/services: Recommender              *)
(* (recommender.py), mmr_rerank (mmr_reranker.py), load_csv_features       *)
(* (feature_store.py), CacheService (cache.py) and the scheduled rebuild   *)
(* (scheduler.py).                                                         *)
(*                                                                         *)
(* Numbers.  Scores are exact rationals <<num, den>> (den > 0, lowest      *)
(* terms); float32 rounding is not modelled.  Feature vectors have two     *)
(* integer components and are chosen with integer Euclidean norms, so      *)
(* that L2 normalisation and cosine similarity stay rational.              *)
(* Rows are numbered from 1 (Python numbers them from 0); the padding row  *)
(* of a faiss search stays -1.                                             *)
(***************************************************************************)
EXTENDS Integers, Sequences, FiniteSets, TLC

(***************************************************************************)
(* Bounds of the model.                                                    *)
(***************************************************************************)
MaxK == 2
MaxRebuilds == 2
MaxPool == 3
MaxTopM == 2
MaxWideK == 3

\* Python's None and a present value; a file that is missing, unreadable
\* or readable with its content
None == <<>>
Some(x) == <<x>>
Val(o) == o[1]

Missing == <<"missing">>
Corrupt == <<"corrupt">>
File(content) == <<"ok", content>>
IsFile(f) == f[1] = "ok"
Content(f) == f[2]

\* a CSV without an "id" column
NoId == ""

(***************************************************************************)
(* Exact arithmetic.                                                       *)
(***************************************************************************)
Abs(n) == IF n < 0 THEN -n ELSE n

RECURSIVE GCD(_, _)
GCD(a, b) == IF b = 0 THEN a ELSE GCD(b, a % b)

\* the fraction p[1] / p[2] in lowest terms, with a positive denominator
Reduce(p) ==
  LET s == IF p[2] < 0 THEN -1 ELSE 1
      g == GCD(Abs(p[1]), Abs(p[2]))
  IN  IF p[1] = 0 THEN <<0, 1>> ELSE <<(s * p[1]) \div g, (s * p[2]) \div g>>

\* n / d; the quantifier makes n and d evaluated once
Rat(n, d) == CHOOSE r \in {Reduce(p) : p \in {<<n, d>>}} : TRUE

RInt(n) == <<n, 1>>
RAdd(a, b) == Rat(a[1] * b[2] + b[1] * a[2], a[2] * b[2])
RSub(a, b) == Rat(a[1] * b[2] - b[1] * a[2], a[2] * b[2])
RMul(a, b) == Rat(a[1] * b[1], a[2] * b[2])
RDiv(a, b) == Rat(a[1] * b[2], a[2] * b[1])
RLt(a, b) == a[1] * b[2] < b[1] * a[2]
RLe(a, b) == a[1] * b[2] <= b[1] * a[2]

\* floor of the square root; exact on the perfect squares the data uses
ISqrt(n) == CHOOSE r \in 0..n : r * r <= n /\ (r + 1) * (r + 1) > n

RECURSIVE SeqMax(_)
SeqMax(s) ==
  IF Len(s) = 1 THEN s[1]
  ELSE LET m == SeqMax(Tail(s)) IN IF RLt(s[1], m) THEN m ELSE s[1]

RECURSIVE SeqMin(_)
SeqMin(s) ==
  IF Len(s) = 1 THEN s[1]
  ELSE LET m == SeqMin(Tail(s)) IN IF RLt(m, s[1]) THEN m ELSE s[1]

Take(s, n) == SubSeq(s, 1, IF n < Len(s) THEN n ELSE Len(s))

Range(s) == {s[i] : i \in DOMAIN s}

(***************************************************************************)
(* Vectors.  A raw vector is a pair of integers; a stored (faiss) vector   *)
(* is a pair of rationals.                                                 *)
(***************************************************************************)
Norm(v) == ISqrt(v[1] * v[1] + v[2] * v[2])

AsRat(v) == <<RInt(v[1]), RInt(v[2])>>

\* faiss.normalize_L2 on one row: a zero row is left as it is
NormalizeL2(v) ==
  IF Norm(v) = 0 THEN AsRat(v)
  ELSE <<Rat(v[1], Norm(v)), Rat(v[2], Norm(v))>>

InnerProduct(u, v) == RAdd(RMul(u[1], v[1]), RMul(u[2], v[2]))

SquaredL2(u, v) ==
  LET d1 == RSub(u[1], v[1])
      d2 == RSub(u[2], v[2])
  IN  RAdd(RMul(d1, d1), RMul(d2, d2))

(***************************************************************************)
(* The faiss flat index: IndexFlatIP (metric "cosine") or IndexFlatL2.     *)
(***************************************************************************)
NewIndex(metric) == [metric |-> metric, vecs |-> <<>>]

IndexAdd(ix, X) == [ix EXCEPT !.vecs = ix.vecs \o X]

ntotal(ix) == Len(ix.vecs)

reconstruct(ix, row) == ix.vecs[row]

\* the faiss score of stored row j for query x
FaissScore(ix, x, j) ==
  IF ix.metric = "cosine" THEN InnerProduct(x, ix.vecs[j])
  ELSE SquaredL2(x, ix.vecs[j])

\* row a is returned before row b: larger inner product (IndexFlatIP) or
\* smaller distance (IndexFlatL2) first, equal scores by row number
Nearer(ix, x, a, b) ==
  \E sa \in {FaissScore(ix, x, a)}, sb \in {FaissScore(ix, x, b)} :
    IF ix.metric = "cosine"
    THEN RLt(sb, sa) \/ (sa = sb /\ a < b)
    ELSE RLt(sa, sb) \/ (sa = sb /\ a < b)

RECURSIVE SearchRows(_, _, _, _)
SearchRows(ix, x, rows, n) ==
  IF n = 0 THEN <<>>
  ELSE IF rows = {} THEN <<-1>> \o SearchRows(ix, x, rows, n - 1)
  ELSE LET nearest == {a \in rows : \A b \in rows \ {a} : Nearer(ix, x, a, b)}
       IN  CHOOSE r \in {<<best>> \o SearchRows(ix, x, rows \ {best}, n - 1) :
                            best \in nearest} : TRUE

\* index.search(x, n): n rows, nearest first, padded with -1
IndexSearch(ix, x, n) ==
  CHOOSE r \in {[idx |-> idx,
                 scores |-> [i \in 1..n |->
                               IF idx[i] < 0 THEN RInt(-1)
                               ELSE FaissScore(ix, x, idx[i])]] :
                  idx \in {SearchRows(ix, x, 1..ntotal(ix), n)}} : TRUE

(***************************************************************************)
(* mmr_reranker.py                                                         *)
(***************************************************************************)
\* max() taking the last of equal scores
RECURSIVE FirstMaxTakesLast(_, _)
FirstMaxTakesLast(keys, idxs) ==
  IF Len(idxs) = 1 THEN idxs[1]
  ELSE LET r == FirstMaxTakesLast(keys, Tail(idxs))
       IN  IF RLe(keys[idxs[1]], keys[r]) THEN r ELSE idxs[1]

\* position of the first element with the largest key (Python's max)
RECURSIVE FirstMax(_, _)
FirstMax(keys, idxs) ==
  IF Len(idxs) = 1 THEN idxs[1]
  ELSE LET r == FirstMax(keys, Tail(idxs))
       IN  IF RLt(keys[idxs[1]], keys[r]) THEN r ELSE idxs[1]

\* remaining_indices.remove(best_idx) left out: a selected index stays in
\* the list
RemoveFirstKeepsAll(s, x) == s

\* list.remove(x): the list without the first occurrence of x (line 89)
RemoveFirst(s, x) ==
  LET p == CHOOSE i \in 1..Len(s) : s[i] = x /\ \A j \in 1..(i - 1) : s[j] # x
  IN  SubSeq(s, 1, p - 1) \o SubSeq(s, p + 1, Len(s))

\* (similarity_scores - min_sim) / sim_range
NormSimilarity(similarity_scores) ==
  LET max_sim == SeqMax(similarity_scores)
      min_sim == SeqMin(similarity_scores)
      sim_range == IF RLt(min_sim, max_sim) THEN RSub(max_sim, min_sim) ELSE RInt(1)
  IN  [i \in 1..Len(similarity_scores) |->
         RDiv(RSub(similarity_scores[i], min_sim), sim_range)]

\* no diversity penalty: 0 whatever is selected
MaxSimToSelectedIgnored(normalized_vectors, idx, selected_indices) == RInt(0)

\* max cosine similarity of candidate idx to the selected items, 0 if none
MaxSimToSelected(normalized_vectors, idx, selected_indices) ==
  IF selected_indices = <<>> THEN RInt(0)
  ELSE SeqMax([i \in 1..Len(selected_indices) |->
                 InnerProduct(normalized_vectors[idx],
                              normalized_vectors[selected_indices[i]])])

\* the two weights of the MMR formula exchanged
MmrScoreWeightsSwapped(lambda_diversity, relevance, max_sim_to_selected) ==
  RSub(RMul(RSub(RInt(1), lambda_diversity), relevance),
       RMul(lambda_diversity, max_sim_to_selected))

MmrScore(lambda_diversity, relevance, max_sim_to_selected) ==
  RSub(RMul(lambda_diversity, relevance),
       RMul(RSub(RInt(1), lambda_diversity), max_sim_to_selected))

\* the selection loop without its bound len(selected_indices) < top_m
RECURSIVE MmrLoopNoLimit(_, _, _, _, _, _)
MmrLoopNoLimit(normalized_vectors, norm_similarity, lambda_diversity, selected_indices, remaining_indices, iterations) ==
  IF remaining_indices = <<>> THEN selected_indices
  ELSE LET mmr_scores == [idx \in 1..Len(norm_similarity) |->
                            MmrScore(lambda_diversity, norm_similarity[idx],
                                     MaxSimToSelected(normalized_vectors, idx,
                                                      selected_indices))]
           best_idx == FirstMax(mmr_scores, remaining_indices)
       IN  MmrLoopNoLimit(normalized_vectors, norm_similarity, lambda_diversity,
                          Append(selected_indices, best_idx),
                          RemoveFirst(remaining_indices, best_idx), iterations)

RECURSIVE MmrLoop(_, _, _, _, _, _)
MmrLoop(normalized_vectors, norm_similarity, lambda_diversity, selected_indices, remaining_indices, iterations) ==
  IF iterations = 0 \/ remaining_indices = <<>> THEN selected_indices
  ELSE LET mmr_scores == [idx \in 1..Len(norm_similarity) |->
                            MmrScore(lambda_diversity, norm_similarity[idx],
                                     MaxSimToSelected(normalized_vectors, idx,
                                                      selected_indices))]
           best_idx == FirstMax(mmr_scores, remaining_indices)
       IN  MmrLoop(normalized_vectors, norm_similarity, lambda_diversity,
                   Append(selected_indices, best_idx),
                   RemoveFirst(remaining_indices, best_idx), iterations - 1)

mmr_rerank(candidate_vectors, candidate_ids, similarity_scores, top_m, lambda_diversity) ==
  IF Len(candidate_ids) = 0 THEN <<>>
  ELSE IF Len(candidate_ids) <= top_m
  THEN [i \in 1..Len(candidate_ids) |-> <<candidate_ids[i], similarity_scores[i]>>]
  ELSE LET normalized_vectors ==
             [i \in 1..Len(candidate_vectors) |-> NormalizeL2(candidate_vectors[i])]
           norm_similarity == NormSimilarity(similarity_scores)
           iterations == IF top_m < Len(candidate_ids) THEN top_m
                         ELSE Len(candidate_ids)
           selected_indices ==
             MmrLoop(normalized_vectors, norm_similarity, lambda_diversity,
                     <<>>, [i \in 1..Len(candidate_ids) |-> i], iterations)
       IN  [r \in 1..Len(selected_indices) |->
              <<candidate_ids[selected_indices[r]],
                norm_similarity[selected_indices[r]]>>]

(***************************************************************************)
(* Identifiers.  IdOrder lists the identifiers the data uses in Python's   *)
(* string order (what sorted() yields).                                    *)
(***************************************************************************)
IdOrder == <<"R1", "R2", "R3", "R4", "R9", "u1", "u1_R1", "u1_R2", "u2", "u2_R1">>

IdRank(id) == CHOOSE i \in 1..Len(IdOrder) : IdOrder[i] = id

RECURSIVE sorted(_)
sorted(S) ==
  IF S = {} THEN <<>>
  ELSE LET m == CHOOSE a \in S : \A b \in S : IdRank(a) <= IdRank(b)
       IN  <<m>> \o sorted(S \ {m})

\* {x: idx for idx, x in enumerate(seq)}
Enumerate(seq) ==
  [x \in Range(seq) |-> CHOOSE i \in 1..Len(seq) :
                          seq[i] = x /\ \A j \in (i + 1)..Len(seq) : seq[j] # x]

EmptyDict == [x \in {} |-> 0]

DictGet(d, key, default) == IF key \in DOMAIN d THEN d[key] ELSE default

(***************************************************************************)
(* feature_store.py: load_csv_features.  A CSV is a sequence of rows       *)
(* [user, route, id, scaled]; id is NoId when the file has no "id" column, *)
(* and scaled is the row's feature vector as StandardScaler.fit_transform  *)
(* yields it for this file.  Zero rows make the scaler raise.              *)
(***************************************************************************)
CsvId(row) ==
  IF row.id # NoId THEN row.id ELSE row.user \o "_" \o row.route

load_csv_features(rows) ==
  IF Len(rows) = 0 THEN [raised |-> TRUE, ids |-> <<>>, X |-> <<>>]
  ELSE [raised |-> FALSE,
        ids |-> [i \in 1..Len(rows) |-> CsvId(rows[i])],
        X |-> [i \in 1..Len(rows) |-> rows[i].scaled]]

\* the rows given to faiss: normalized when the metric is cosine
IndexRows(metric, X) ==
  [i \in 1..Len(X) |-> IF metric = "cosine" THEN NormalizeL2(X[i]) ELSE AsRat(X[i])]

(***************************************************************************)
(* The interaction matrix of load_trained_model and the item-item scores   *)
(* of get_collaborative_scores.                                            *)
(***************************************************************************)
\* user_seen: user -> set of route ids, from the rows of user_seen.csv
UserSeen(rows) ==
  [u \in {rows[i][1] : i \in 1..Len(rows)} |->
     {rows[i][2] : i \in {j \in 1..Len(rows) : rows[j][1] = u}}]

Zeros(n_users, n_routes) == [u \in 1..n_users |-> [r \in 1..n_routes |-> 0]]

\* the inner loop of lines 175-181 for one user
FillUser(matrix, seen, user, user_idx_of, route_idx_of) ==
  IF user \notin DOMAIN user_idx_of THEN matrix
  ELSE [matrix EXCEPT ![user_idx_of[user]] =
          [r \in 1..Len(@) |->
             IF \E route \in seen[user] :
                  route \in DOMAIN route_idx_of /\ route_idx_of[route] = r
             THEN 1 ELSE @[r]]]

Column(matrix, c) == [u \in 1..Len(matrix) |-> matrix[u][c]]

RECURSIVE SumSeq(_)
SumSeq(s) == IF s = <<>> THEN 0 ELSE s[1] + SumSeq(Tail(s))

DotSeq(a, b) == SumSeq([i \in 1..Len(a) |-> a[i] * b[i]])

\* sklearn cosine_similarity of two rows; a zero row has similarity 0
cosine_similarity(a, b) ==
  IF DotSeq(a, a) = 0 \/ DotSeq(b, b) = 0 THEN RInt(0)
  ELSE Rat(DotSeq(a, b), ISqrt(DotSeq(a, a) * DotSeq(b, b)))

\* the scores without the test route_id != query_route_id
CollabScoresWithQuery(matrix, route_idx_of, query_route_id) ==
  LET q == Column(matrix, route_idx_of[query_route_id])
  IN  [r \in DOMAIN route_idx_of |->
         cosine_similarity(q, Column(matrix, route_idx_of[r]))]

\* lines 288-300: the scores of every other route
CollabScores(matrix, route_idx_of, query_route_id) ==
  LET q == Column(matrix, route_idx_of[query_route_id])
  IN  [r \in DOMAIN route_idx_of \ {query_route_id} |->
         cosine_similarity(q, Column(matrix, route_idx_of[r]))]

(***************************************************************************)
(* search_by_activity: the candidate pool and the strategies.              *)
(***************************************************************************)
Strategies == {"content", "content_mmr", "ensemble", "ensemble_mmr", "popularity"}

\* "mmr" in strategy
HasMmr(strategy) == strategy \in {"content_mmr", "ensemble_mmr"}

\* a pool of k + 1 neighbours whatever the strategy
PoolSizeNoOverfetch(k, strategy) == k + 1

PoolSize(k, strategy) == IF HasMmr(strategy) THEN k * 10 ELSE k + 1

\* a lookup that answers the first row for an id idmap does not hold
RowOfDefaultsToFirst(idmap_, activity_id) ==
  IF idmap_ = None \/ Val(idmap_) = <<>> THEN 0
  ELSE IF activity_id \notin Range(Val(idmap_)) THEN 1
  ELSE CHOOSE i \in 1..Len(Val(idmap_)) :
         /\ Val(idmap_)[i] = activity_id
         /\ \A j \in 1..(i - 1) : Val(idmap_)[j] # activity_id

\* np.where(self.idmap == activity_id)[0][0]; 0 stands for the IndexError
RowOf(idmap_, activity_id) ==
  IF idmap_ = None \/ activity_id \notin Range(Val(idmap_)) THEN 0
  ELSE CHOOSE i \in 1..Len(Val(idmap_)) :
         /\ Val(idmap_)[i] = activity_id
         /\ \A j \in 1..(i - 1) : Val(idmap_)[j] # activity_id

\* the rows of a search result the loop of lines 355-361 looks up in idmap
ValidRows(sr) == {sr.idx[i] : i \in {j \in 1..Len(sr.idx) : sr.idx[j] >= 0}}

\* idmap[j] raises for one of them
LookupRaises(idmap_, sr) ==
  ValidRows(sr) # {} /\ (idmap_ = None \/ \E j \in ValidRows(sr) : j > Len(Val(idmap_)))

\* the loop without its test cid != activity_id
RECURSIVE FilterCandidatesKeepQuery(_, _, _, _)
FilterCandidatesKeepQuery(ids, sr, activity_id, i) ==
  IF i > Len(sr.idx) THEN <<>>
  ELSE IF sr.idx[i] < 0
  THEN FilterCandidatesKeepQuery(ids, sr, activity_id, i + 1)
  ELSE <<[id |-> ids[sr.idx[i]], row |-> sr.idx[i], score |-> sr.scores[i]]>>
       \o FilterCandidatesKeepQuery(ids, sr, activity_id, i + 1)

RECURSIVE FilterCandidates(_, _, _, _)
FilterCandidates(ids, sr, activity_id, i) ==
  IF i > Len(sr.idx) THEN <<>>
  ELSE IF sr.idx[i] < 0 \/ ids[sr.idx[i]] = activity_id
  THEN FilterCandidates(ids, sr, activity_id, i + 1)
  ELSE <<[id |-> ids[sr.idx[i]], row |-> sr.idx[i], score |-> sr.scores[i]]>>
       \o FilterCandidates(ids, sr, activity_id, i + 1)

CandIds(cands) == [i \in 1..Len(cands) |-> cands[i].id]
CandRows(cands) == [i \in 1..Len(cands) |-> cands[i].row]
CandScores(cands) == [i \in 1..Len(cands) |-> cands[i].score]

\* list(zip(candidates[:k], candidate_scores[:k]))
ContentTopK(cands, k) ==
  [i \in 1..(IF k < Len(cands) THEN k ELSE Len(cands)) |->
     <<cands[i].id, cands[i].score>>]

\* self.feature_vectors[candidate_indices] raises
VectorsRaise(feature_vectors_, rows) ==
  \/ feature_vectors_ = None
  \/ \E i \in 1..Len(rows) : rows[i] > Len(Val(feature_vectors_))

MmrOnCandidates(fv, cands, k, lambda_diversity) ==
  mmr_rerank([i \in 1..Len(cands) |-> fv[cands[i].row]], CandIds(cands),
             CandScores(cands), k, lambda_diversity)

\* min-max normalization of lines 416-419
MinMax(scores) ==
  LET lo == SeqMin(scores)
      hi == SeqMax(scores)
      range == IF RLt(lo, hi) THEN RSub(hi, lo) ELSE RInt(1)
  IN  [i \in 1..Len(scores) |-> RDiv(RSub(scores[i], lo), range)]

\* stable descending sort of positions by key (np.argsort(-x) on a short
\* array; list.sort(reverse=True))
RECURSIVE ArgSortDesc(_, _)
ArgSortDesc(keys, idxs) ==
  IF idxs = <<>> THEN <<>>
  ELSE LET b == FirstMax(keys, idxs)
       IN  <<b>> \o ArgSortDesc(keys, RemoveFirst(idxs, b))

\* the blend with the two weights exchanged
EnsembleBlendWeightsSwapped(cands, collab_scores_dict) ==
  LET content_normalized == MinMax(CandScores(cands))
      collab_scores == [i \in 1..Len(cands) |->
                          DictGet(collab_scores_dict, cands[i].id, RInt(0))]
      collab_normalized == IF RLt(RInt(0), SeqMax(collab_scores))
                           THEN MinMax(collab_scores) ELSE collab_scores
      ensemble_scores == [i \in 1..Len(cands) |->
                            RAdd(RMul(<<4, 10>>, content_normalized[i]),
                                 RMul(<<6, 10>>, collab_normalized[i]))]
      sorted_indices == ArgSortDesc(ensemble_scores, [i \in 1..Len(cands) |-> i])
  IN  [i \in 1..Len(cands) |->
         [id |-> cands[sorted_indices[i]].id,
          row |-> cands[sorted_indices[i]].row,
          score |-> ensemble_scores[sorted_indices[i]]]]

\* lines 416-442: the candidates with their blended scores, best first
EnsembleBlend(cands, collab_scores_dict) ==
  LET content_normalized == MinMax(CandScores(cands))
      collab_scores == [i \in 1..Len(cands) |->
                          DictGet(collab_scores_dict, cands[i].id, RInt(0))]
      collab_normalized == IF RLt(RInt(0), SeqMax(collab_scores))
                           THEN MinMax(collab_scores) ELSE collab_scores
      ensemble_scores == [i \in 1..Len(cands) |->
                            RAdd(RMul(<<6, 10>>, content_normalized[i]),
                                 RMul(<<4, 10>>, collab_normalized[i]))]
      sorted_indices == ArgSortDesc(ensemble_scores, [i \in 1..Len(cands) |-> i])
  IN  [i \in 1..Len(cands) |->
         [id |-> cands[sorted_indices[i]].id,
          row |-> cands[sorted_indices[i]].row,
          score |-> ensemble_scores[sorted_indices[i]]]]

\* the popularity branch taken also without popularity data
PopularityResultNoFallback(cands, popularity_scores, k) ==
  IF cands = <<>> THEN <<>>
  ELSE LET pop == [i \in 1..Len(cands) |->
                     RInt(DictGet(popularity_scores, cands[i].id, 0))]
           order == ArgSortDesc(pop, [i \in 1..Len(cands) |-> i])
           max_pop == SeqMax(pop)
           min_pop == IF Len(cands) > 1 THEN SeqMin(pop) ELSE RInt(0)
           pop_range == IF RLt(min_pop, max_pop) THEN RSub(max_pop, min_pop)
                        ELSE RInt(1)
       IN  [i \in 1..(IF k < Len(cands) THEN k ELSE Len(cands)) |->
              <<cands[order[i]].id, RDiv(RSub(pop[order[i]], min_pop), pop_range)>>]

\* the popularity branch without its sort
PopularityResultUnsorted(cands, popularity_scores, k) ==
  IF DOMAIN popularity_scores = {} THEN ContentTopK(cands, k)
  ELSE IF cands = <<>> THEN <<>>
  ELSE LET pop == [i \in 1..Len(cands) |->
                     RInt(DictGet(popularity_scores, cands[i].id, 0))]
           max_pop == SeqMax(pop)
           min_pop == IF Len(cands) > 1 THEN SeqMin(pop) ELSE RInt(0)
           pop_range == IF RLt(min_pop, max_pop) THEN RSub(max_pop, min_pop)
                        ELSE RInt(1)
       IN  [i \in 1..(IF k < Len(cands) THEN k ELSE Len(cands)) |->
              <<cands[i].id, RDiv(RSub(pop[i], min_pop), pop_range)>>]

\* lines 473-494
PopularityResult(cands, popularity_scores, k) ==
  IF DOMAIN popularity_scores = {} THEN ContentTopK(cands, k)
  ELSE IF cands = <<>> THEN <<>>
  ELSE LET pop == [i \in 1..Len(cands) |->
                     RInt(DictGet(popularity_scores, cands[i].id, 0))]
           order == ArgSortDesc(pop, [i \in 1..Len(cands) |-> i])
           max_pop == SeqMax(pop)
           min_pop == IF Len(cands) > 1 THEN SeqMin(pop) ELSE RInt(0)
           pop_range == IF RLt(min_pop, max_pop) THEN RSub(max_pop, min_pop)
                        ELSE RInt(1)
       IN  [i \in 1..(IF k < Len(cands) THEN k ELSE Len(cands)) |->
              <<cands[order[i]].id, RDiv(RSub(pop[order[i]], min_pop), pop_range)>>]

(***************************************************************************)
(* The files the Recommender reads: the trained model directory            *)
(* (TRAINED_MODEL_DIR), the seed CSV and the cached index artifacts        *)
(* (INDEX_PATH, IDMAP_PATH, SCALER_PATH).  A file is "missing", "corrupt"  *)
(* (it exists and reading it raises) or File(content).                     *)
(***************************************************************************)
RouteEmbeddings == << <<5, 0>>, <<4, 3>>, <<0, 5>>, <<-5, 0>> >>

RouteIdToIdx == [r \in {"R1", "R2", "R3", "R4"} |-> IdRank(r)]

PopularityCsv == [r \in {"R1", "R2", "R3"} |->
                    IF r = "R1" THEN 10 ELSE IF r = "R2" THEN 30 ELSE 20]

UserSeenCsv == << <<"u1", "R1">>, <<"u1", "R3">>, <<"u2", "R2">>, <<"u2", "R9">> >>

TrainedDir(scaler, embeddings, id_to_idx, popularity, user_seen) ==
  [dir |-> TRUE, scaler |-> scaler, embeddings |-> embeddings,
   id_to_idx |-> id_to_idx, popularity |-> popularity, user_seen |-> user_seen]

TrainedModels ==
  { [dir |-> FALSE, scaler |-> Missing, embeddings |-> Missing,
     id_to_idx |-> Missing, popularity |-> Missing, user_seen |-> Missing],
    TrainedDir(File("scaler.pkl"), File(RouteEmbeddings), File(RouteIdToIdx),
               File(PopularityCsv), File(UserSeenCsv)),
    TrainedDir(File("scaler.pkl"), File(RouteEmbeddings), File(RouteIdToIdx),
               Missing, Missing),
    TrainedDir(File("scaler.pkl"), Missing, File(RouteIdToIdx),
               File(PopularityCsv), File(UserSeenCsv)),
    TrainedDir(File("scaler.pkl"), File(RouteEmbeddings), File(RouteIdToIdx),
               File(PopularityCsv), Corrupt) }

CsvRow(user, route, id, scaled) ==
  [user |-> user, route |-> route, id |-> id, scaled |-> scaled]

SeedCsvs ==
  { <<>>,
    << CsvRow("u1", "R1", "R1", <<3, 4>>), CsvRow("u1", "R2", "R2", <<5, 0>>),
       CsvRow("u2", "R3", "R3", <<0, 5>>), CsvRow("u2", "R1", "R1", <<4, 3>>) >>,
    << CsvRow("u1", "R1", NoId, <<3, 4>>), CsvRow("u2", "R1", NoId, <<3, 4>>),
       CsvRow("u1", "R2", NoId, <<0, -5>>) >> }

\* what an earlier run of the process left in the index directory
EarlierIndex ==
  IndexAdd(NewIndex("cosine"), IndexRows("cosine", << <<5, 0>>, <<0, 5>> >>))

EarlierIdmap == <<"R1", "R2">>

IndexDirs ==
  { [index |-> Missing, idmap |-> Missing, scaler |-> Missing],
    [index |-> File(EarlierIndex), idmap |-> File(EarlierIdmap), scaler |-> File("mean_")],
    [index |-> File(EarlierIndex), idmap |-> Corrupt, scaler |-> File("mean_")],
    [index |-> Corrupt, idmap |-> File(EarlierIdmap), scaler |-> File("mean_")] }

(***************************************************************************)
(* The inputs of the calls.                                                *)
(***************************************************************************)
ActivityIds == {"R1", "R4", "u1_R1", "R9"}

Ks == 1..MaxK

Lambdas == {<<0, 1>>, <<3, 10>>, <<1, 1>>}

QueryVectors == {<<5, 0>>, <<0, 0>>}

(***************************************************************************)
(* The result of search_by_activity once the candidate pool is known       *)
(* (lines 367-498): raised tells that the call raised instead.             *)
(***************************************************************************)
Returned(list) == [raised |-> FALSE, result |-> list]
Raised == [raised |-> TRUE, result |-> <<>>]

MmrResult(feature_vectors_, cands, k, lambda_diversity) ==
  IF VectorsRaise(feature_vectors_, CandRows(cands)) THEN Raised
  ELSE Returned(MmrOnCandidates(Val(feature_vectors_), cands, k, lambda_diversity))

\* the blend run also on an empty mapping of collaborative scores
EnsembleResultNoFallback(strategy, cands, k, lambda_diversity, feature_vectors_, collab_scores_dict) ==
  IF cands = <<>> THEN Raised
  ELSE IF strategy = "ensemble"
       THEN Returned(ContentTopK(EnsembleBlend(cands, collab_scores_dict), k))
       ELSE MmrResult(feature_vectors_, EnsembleBlend(cands, collab_scores_dict),
                      k, lambda_diversity)

EnsembleResult(strategy, cands, k, lambda_diversity, feature_vectors_, collab_scores_dict) ==
  IF DOMAIN collab_scores_dict = {}
  THEN IF strategy = "ensemble" THEN Returned(ContentTopK(cands, k))
       ELSE MmrResult(feature_vectors_, cands, k, lambda_diversity)
  ELSE IF cands = <<>> THEN Raised
  ELSE IF strategy = "ensemble"
       THEN Returned(ContentTopK(EnsembleBlend(cands, collab_scores_dict), k))
       ELSE MmrResult(feature_vectors_, EnsembleBlend(cands, collab_scores_dict),
                      k, lambda_diversity)

\* get_collaborative_scores computed without the cache (lines 256-257 and
\* 269-300)
CollabFresh(user_route_matrix, route_to_matrix_idx, query_route_id) ==
  IF user_route_matrix = None \/ route_to_matrix_idx = None THEN EmptyDict
  ELSE IF query_route_id \notin DOMAIN Val(route_to_matrix_idx) THEN EmptyDict
  ELSE IF SumSeq(Column(Val(user_route_matrix),
                        Val(route_to_matrix_idx)[query_route_id])) = 0 THEN EmptyDict
  ELSE CollabScores(Val(user_route_matrix), Val(route_to_matrix_idx), query_route_id)

\* search_by_activity under strategy content, once ensure_ready has
\* returned, on a Recommender holding index_ and idmap_ (lines 338-372)
ContentSearch(index_, idmap_, activity_id, k) ==
  LET row == RowOf(idmap_, activity_id)
  IN  IF row = 0 THEN Returned(<<>>)
      ELSE IF index_ = None \/ row > ntotal(Val(index_)) THEN Raised
      ELSE LET sr == IndexSearch(Val(index_), reconstruct(Val(index_), row),
                                 PoolSize(k, "content"))
           IN  IF LookupRaises(idmap_, sr) THEN Raised
               ELSE Returned(ContentTopK(
                      FilterCandidates(Val(idmap_), sr, activity_id, 1), k))

(***************************************************************************)
(* State.                                                                  *)
(***************************************************************************)
Threads == {"t1", "t2"}

VARIABLES
  self,           \* the fields of the Recommender (recsys)
  lock,           \* self._lock, a threading.RLock: owner and depth
  files,          \* the index directory: INDEX_PATH, IDMAP_PATH, SCALER_PATH
  trained,        \* the trained model directory
  csv,            \* the seed CSV
  recsys_metric,  \* settings.recsys_metric
  cacheUp,        \* CacheService.enabled with a reachable client
  cacheStore,     \* the cache: key -> pickled scores
  pc,             \* where each thread is
  stack,          \* each thread's return labels
  local,          \* each thread's local variables
  writer,         \* history: the build that last wrote index, idmap, feature_vectors
  builds,         \* history: the rebuilds that have written so far
  mmr             \* the frame of a call of mmr_rerank made on its own

vars == <<self, lock, files, trained, csv, recsys_metric, cacheUp, cacheStore,
          pc, stack, local, writer, builds, mmr>>

env == <<trained, csv, recsys_metric, cacheUp, mmr>>

\* no call of mmr_rerank on its own is under way
NoMmrCall == [pc |-> "none"]

NoSearch == [idx |-> <<>>, scores |-> <<>>]

NoReads == [index |-> None, idmap |-> None, feature_vectors |-> None]

LocalInit ==
  [call |-> "", activity_id |-> "", k |-> 0, strategy |-> "",
   lambda_diversity |-> RInt(0), vec |-> <<0, 0>>,
   row |-> 0, sr |-> NoSearch, cands |-> <<>>, collab |-> EmptyDict,
   query_idx |-> 0, u |-> 0, gen |-> None,
   retb |-> FALSE, exc |-> FALSE, result |-> None,
   attempts |-> <<>>, erReady |-> FALSE, reads |-> NoReads]

SelfInit ==
  [df |-> None, index |-> None, scaler |-> None, idmap |-> None,
   feature_vectors |-> None, popularity_scores |-> EmptyDict,
   user_seen |-> None, user_route_matrix |-> None,
   route_to_matrix_idx |-> None, user_to_matrix_idx |-> None]

\* load_trained_model runs to its end on this directory
Loadable(tm) ==
  /\ tm.dir /\ IsFile(tm.scaler) /\ IsFile(tm.embeddings) /\ IsFile(tm.id_to_idx)
  /\ tm.popularity # Corrupt /\ tm.user_seen # Corrupt

\* The index directory matters only when the trained model does not load
\* (load_trained_model overwrites it before anything reads it), and the
\* cache only when there is an interaction matrix to score.
Init ==
  /\ self = SelfInit
  /\ lock = [owner |-> None, count |-> 0]
  /\ trained \in TrainedModels
  /\ files \in IF Loadable(trained) THEN {CHOOSE d \in IndexDirs : d.index = Missing}
               ELSE IndexDirs
  /\ csv \in SeedCsvs
  /\ recsys_metric = "cosine"
  /\ cacheUp \in IF Loadable(trained) /\ IsFile(trained.user_seen) THEN BOOLEAN ELSE {TRUE}
  /\ cacheStore = [a \in ActivityIds |-> None]
  /\ pc = [t \in Threads |-> "idle"]
  /\ stack = [t \in Threads |-> <<>>]
  /\ local = [t \in Threads |-> LocalInit]
  /\ writer = NoReads
  /\ builds = 0
  /\ mmr = NoMmrCall

(***************************************************************************)
(* Control: labels, calls, returns, the lock.                              *)
(***************************************************************************)
Goto(t, label) == pc' = [pc EXCEPT ![t] = label]

SetLocal(t, loc) == local' = [local EXCEPT ![t] = loc]

\* call a method of self: continue at label target, come back at label ret
Call(t, target, ret, loc) ==
  /\ Goto(t, target)
  /\ stack' = [stack EXCEPT ![t] = <<ret>> \o @]
  /\ SetLocal(t, loc)

Return(t, loc) ==
  /\ Goto(t, Head(stack[t]))
  /\ stack' = [stack EXCEPT ![t] = Tail(@)]
  /\ SetLocal(t, loc)

\* threading.RLock: free, or held by the calling thread
CanAcquireNotReentrant(t) == lock.owner = None

CanAcquireNoExclusion(t) == TRUE

CanAcquire(t) == lock.owner = None \/ lock.owner = Some(t)

Acquired(t) == [owner |-> Some(t), count |-> lock.count + 1]

Released ==
  IF lock.count <= 1 THEN [owner |-> None, count |-> 0]
  ELSE [lock EXCEPT !.count = @ - 1]

(***************************************************************************)
(* ensure_ready (lines 225-240).  attempts is the history of the sources   *)
(* this call has tried.                                                    *)
(***************************************************************************)
EnsureReadyNextNoStop(at, ok, exc) ==
  IF at = "check" THEN (IF ok THEN "er_rel" ELSE "ltm_dir")
  ELSE IF at = "trained" THEN "ld_exists"
  ELSE IF at = "cache" THEN (IF exc \/ ok THEN "er_rel" ELSE "rb_acq")
  ELSE "er_rel"

EnsureReadyNextNoCheck(at, ok, exc) ==
  IF at = "check" THEN "ltm_dir"
  ELSE IF at = "trained" THEN (IF ok THEN "er_rel" ELSE "ld_exists")
  ELSE IF at = "cache" THEN (IF exc \/ ok THEN "er_rel" ELSE "rb_acq")
  ELSE "er_rel"

\* where ensure_ready continues: at its index check, and after each source
EnsureReadyNext(at, ok, exc) ==
  IF at = "check" THEN (IF ok THEN "er_rel" ELSE "ltm_dir")
  ELSE IF at = "trained" THEN (IF ok THEN "er_rel" ELSE "ld_exists")
  ELSE IF at = "cache" THEN (IF exc \/ ok THEN "er_rel" ELSE "rb_acq")
  ELSE "er_rel"

SourceOf(label) ==
  IF label = "ltm_dir" THEN "trained" ELSE IF label = "ld_exists" THEN "cache" ELSE "csv"

ReturnLabelOf(label) ==
  IF label = "ltm_dir" THEN "er_ltm_ret"
  ELSE IF label = "ld_exists" THEN "er_ld_ret" ELSE "er_rb_ret"

Attempted(loc, src) ==
  [loc EXCEPT !.attempts = Append(@, [src |-> src, res |-> "pending", before |-> self])]

Settled(loc, ok) ==
  [loc EXCEPT !.attempts[Len(loc.attempts)].res = IF ok THEN "ok" ELSE "failed"]

ErGoto(t, next, loc) ==
  IF next = "er_rel"
  THEN Goto(t, "er_rel") /\ SetLocal(t, loc) /\ UNCHANGED stack
  ELSE Call(t, next, ReturnLabelOf(next), Attempted(loc, SourceOf(next)))

ErAcquire(t) ==
  /\ pc[t] = "er_acq"
  /\ CanAcquire(t)
  /\ lock' = Acquired(t)
  /\ Goto(t, "er_check")
  /\ UNCHANGED <<self, files, cacheStore, stack, local, writer, builds, env>>

ErCheck(t) ==
  /\ pc[t] = "er_check"
  /\ ErGoto(t, EnsureReadyNext("check", self.index # None, FALSE),
            [local[t] EXCEPT !.erReady = self.index # None])
  /\ UNCHANGED <<self, lock, files, cacheStore, writer, builds, env>>

ErAfterTrained(t) ==
  /\ pc[t] = "er_ltm_ret"
  /\ ErGoto(t, EnsureReadyNext("trained", local[t].retb, FALSE),
            Settled(local[t], local[t].retb))
  /\ UNCHANGED <<self, lock, files, cacheStore, writer, builds, env>>

ErAfterCache(t) ==
  /\ pc[t] = "er_ld_ret"
  /\ ErGoto(t, EnsureReadyNext("cache", local[t].retb, local[t].exc),
            Settled(local[t], local[t].retb /\ ~local[t].exc))
  /\ UNCHANGED <<self, lock, files, cacheStore, writer, builds, env>>

ErAfterCsv(t) ==
  /\ pc[t] = "er_rb_ret"
  /\ ErGoto(t, EnsureReadyNext("csv", ~local[t].exc, local[t].exc),
            Settled(local[t], ~local[t].exc))
  /\ UNCHANGED <<self, lock, files, cacheStore, writer, builds, env>>

\* leaving the with block, normally or by an exception
ErRelease(t) ==
  /\ pc[t] = "er_rel"
  /\ lock' = Released
  /\ Return(t, local[t])
  /\ UNCHANGED <<self, files, cacheStore, writer, builds, env>>

(***************************************************************************)
(* load_trained_model (lines 74-223).  Every exception inside its try      *)
(* block makes it return False.  modelcard, inference_config and           *)
(* route_metadata are not read by the search and are left out.             *)
(***************************************************************************)
LtmReturn(t, value) == Return(t, [local[t] EXCEPT !.retb = value])

\* the idmap array of lines 110-112
IdmapOf(id_to_idx) ==
  [i \in 1..Cardinality(DOMAIN id_to_idx) |->
     CHOOSE r \in DOMAIN id_to_idx : id_to_idx[r] = i]

LtmDir(t) ==
  /\ pc[t] = "ltm_dir"
  /\ IF trained.dir
     THEN Goto(t, "ltm_scaler") /\ UNCHANGED <<stack, local>>
     ELSE LtmReturn(t, FALSE)
  /\ UNCHANGED <<self, lock, files, cacheStore, writer, builds, env>>

LtmScaler(t) ==
  /\ pc[t] = "ltm_scaler"
  /\ IF IsFile(trained.scaler)
     THEN /\ self' = [self EXCEPT !.scaler = Some(Content(trained.scaler))]
          /\ Goto(t, "ltm_emb") /\ UNCHANGED <<stack, local>>
     ELSE LtmReturn(t, FALSE) /\ UNCHANGED self
  /\ UNCHANGED <<lock, files, cacheStore, writer, builds, env>>

LtmEmbeddings(t) ==
  /\ pc[t] = "ltm_emb"
  /\ IF IsFile(trained.embeddings)
     THEN Goto(t, "ltm_idmap") /\ UNCHANGED <<stack, local>>
     ELSE LtmReturn(t, FALSE)
  /\ UNCHANGED <<self, lock, files, cacheStore, writer, builds, env>>

LtmIdmap(t) ==
  /\ pc[t] = "ltm_idmap"
  /\ IF IsFile(trained.id_to_idx)
     THEN /\ self' = [self EXCEPT !.idmap = Some(IdmapOf(Content(trained.id_to_idx)))]
          /\ writer' = [writer EXCEPT !.idmap = Some(<<"trained">>)]
          /\ Goto(t, "ltm_pop") /\ UNCHANGED <<stack, local>>
     ELSE LtmReturn(t, FALSE) /\ UNCHANGED <<self, writer>>
  /\ UNCHANGED <<lock, files, cacheStore, builds, env>>

LtmPopularity(t) ==
  /\ pc[t] = "ltm_pop"
  /\ IF trained.popularity = Corrupt
     THEN LtmReturn(t, FALSE) /\ UNCHANGED self
     ELSE /\ self' = IF IsFile(trained.popularity)
                     THEN [self EXCEPT !.popularity_scores = Content(trained.popularity)]
                     ELSE self
          /\ Goto(t, "ltm_seen") /\ UNCHANGED <<stack, local>>
  /\ UNCHANGED <<lock, files, cacheStore, writer, builds, env>>

LtmUserSeen(t) ==
  /\ pc[t] = "ltm_seen"
  /\ IF trained.user_seen = Corrupt
     THEN LtmReturn(t, FALSE) /\ UNCHANGED self
     ELSE IF trained.user_seen = Missing
     THEN Goto(t, "ltm_fv") /\ UNCHANGED <<self, stack, local>>
     ELSE /\ self' = [self EXCEPT !.user_seen = Some(UserSeen(Content(trained.user_seen)))]
          /\ Goto(t, "ltm_maps") /\ UNCHANGED <<stack, local>>
  /\ UNCHANGED <<lock, files, cacheStore, writer, builds, env>>

LtmMaps(t) ==
  /\ pc[t] = "ltm_maps"
  /\ self' = [self EXCEPT
                !.user_to_matrix_idx =
                   Some(Enumerate(sorted(DOMAIN Val(self.user_seen)))),
                !.route_to_matrix_idx =
                   Some(Enumerate(sorted(Range(Val(self.idmap)))))]
  /\ Goto(t, "ltm_zeros")
  /\ UNCHANGED <<lock, files, cacheStore, stack, local, writer, builds, env>>

LtmZeros(t) ==
  /\ pc[t] = "ltm_zeros"
  /\ self' = [self EXCEPT !.user_route_matrix =
                Some(Zeros(Cardinality(DOMAIN Val(self.user_seen)),
                           Len(sorted(Range(Val(self.idmap))))))]
  /\ Goto(t, "ltm_fill")
  /\ SetLocal(t, [local[t] EXCEPT !.u = 1])
  /\ UNCHANGED <<lock, files, cacheStore, stack, writer, builds, env>>

\* one turn of the loop over self.user_seen.items()
LtmFill(t) ==
  /\ pc[t] = "ltm_fill"
  /\ LET users == sorted(DOMAIN Val(self.user_seen))
     IN  IF local[t].u > Len(users)
         THEN Goto(t, "ltm_fv") /\ UNCHANGED <<self, local>>
         ELSE /\ self' = [self EXCEPT !.user_route_matrix =
                            Some(FillUser(Val(self.user_route_matrix),
                                          Val(self.user_seen), users[local[t].u],
                                          Val(self.user_to_matrix_idx),
                                          Val(self.route_to_matrix_idx)))]
              /\ SetLocal(t, [local[t] EXCEPT !.u = @ + 1])
              /\ UNCHANGED pc
  /\ UNCHANGED <<lock, files, cacheStore, stack, writer, builds, env>>

LtmFeatureVectors(t) ==
  /\ pc[t] = "ltm_fv"
  /\ self' = [self EXCEPT !.feature_vectors = Some(Content(trained.embeddings))]
  /\ writer' = [writer EXCEPT !.feature_vectors = Some(<<"trained">>)]
  /\ Goto(t, "ltm_index")
  /\ UNCHANGED <<lock, files, cacheStore, stack, local, builds, env>>

LtmIndex(t) ==
  /\ pc[t] = "ltm_index"
  /\ self' = [self EXCEPT !.index = Some(NewIndex(recsys_metric))]
  /\ writer' = [writer EXCEPT !.index = Some(<<"trained">>)]
  /\ Goto(t, "ltm_add")
  /\ UNCHANGED <<lock, files, cacheStore, stack, local, builds, env>>

LtmAdd(t) ==
  /\ pc[t] = "ltm_add"
  /\ self' = [self EXCEPT !.index =
                Some(IndexAdd(Val(@), IndexRows(recsys_metric,
                                                Content(trained.embeddings))))]
  /\ Goto(t, "ltm_write_index")
  /\ UNCHANGED <<lock, files, cacheStore, stack, local, writer, builds, env>>

LtmWriteIndex(t) ==
  /\ pc[t] = "ltm_write_index"
  /\ files' = [files EXCEPT !.index = File(Val(self.index))]
  /\ Goto(t, "ltm_write_idmap")
  /\ UNCHANGED <<self, lock, cacheStore, stack, local, writer, builds, env>>

LtmWriteIdmap(t) ==
  /\ pc[t] = "ltm_write_idmap"
  /\ files' = [files EXCEPT !.idmap = File(Val(self.idmap))]
  /\ LtmReturn(t, TRUE)
  /\ UNCHANGED <<self, lock, cacheStore, writer, builds, env>>

(***************************************************************************)
(* _load (lines 47-53): an unreadable artifact makes the read raise.       *)
(***************************************************************************)
LoadExists(t) ==
  /\ pc[t] = "ld_exists"
  /\ IF files.index = Missing \/ files.idmap = Missing
     THEN Return(t, [local[t] EXCEPT !.retb = FALSE])
     ELSE Goto(t, "ld_index") /\ UNCHANGED <<stack, local>>
  /\ UNCHANGED <<self, lock, files, cacheStore, writer, builds, env>>

LoadIndex(t) ==
  /\ pc[t] = "ld_index"
  /\ IF IsFile(files.index)
     THEN /\ self' = [self EXCEPT !.index = Some(Content(files.index))]
          /\ writer' = [writer EXCEPT !.index = Some(<<"cache">>)]
          /\ Goto(t, "ld_idmap") /\ UNCHANGED <<stack, local>>
     ELSE /\ Return(t, [local[t] EXCEPT !.retb = FALSE, !.exc = TRUE])
          /\ UNCHANGED <<self, writer>>
  /\ UNCHANGED <<lock, files, cacheStore, builds, env>>

LoadIdmap(t) ==
  /\ pc[t] = "ld_idmap"
  /\ IF IsFile(files.idmap)
     THEN /\ self' = [self EXCEPT !.idmap = Some(Content(files.idmap))]
          /\ writer' = [writer EXCEPT !.idmap = Some(<<"cache">>)]
          /\ Return(t, [local[t] EXCEPT !.retb = TRUE])
     ELSE /\ Return(t, [local[t] EXCEPT !.retb = FALSE, !.exc = TRUE])
          /\ UNCHANGED <<self, writer>>
  /\ UNCHANGED <<lock, files, cacheStore, builds, env>>

(***************************************************************************)
(* rebuild_from_csv (lines 55-72) with _save (lines 42-45).                *)
(***************************************************************************)
RbAcquire(t) ==
  /\ pc[t] = "rb_acq"
  /\ CanAcquire(t)
  /\ lock' = Acquired(t)
  /\ Goto(t, "rb_csv")
  /\ UNCHANGED <<self, files, cacheStore, stack, local, writer, builds, env>>

RbCsv(t) ==
  /\ pc[t] = "rb_csv"
  /\ IF load_csv_features(csv).raised
     THEN Goto(t, "rb_rel") /\ SetLocal(t, [local[t] EXCEPT !.exc = TRUE])
     ELSE Goto(t, "rb_scaler") /\ UNCHANGED local
  /\ UNCHANGED <<self, lock, files, cacheStore, stack, writer, builds, env>>

RbScaler(t) ==
  /\ pc[t] = "rb_scaler"
  /\ self' = [self EXCEPT !.df = Some(csv), !.scaler = Some("StandardScaler")]
  /\ builds' = builds + 1
  /\ SetLocal(t, [local[t] EXCEPT !.gen = Some(<<"csv", builds + 1>>)])
  /\ Goto(t, "rb_fv")
  /\ UNCHANGED <<lock, files, cacheStore, stack, writer, env>>

RbFeatureVectors(t) ==
  /\ pc[t] = "rb_fv"
  /\ self' = [self EXCEPT !.feature_vectors = Some(load_csv_features(csv).X)]
  /\ writer' = [writer EXCEPT !.feature_vectors = local[t].gen]
  /\ Goto(t, "rb_index")
  /\ UNCHANGED <<lock, files, cacheStore, stack, local, builds, env>>

RbIndex(t) ==
  /\ pc[t] = "rb_index"
  /\ self' = [self EXCEPT !.index = Some(NewIndex(recsys_metric))]
  /\ writer' = [writer EXCEPT !.index = local[t].gen]
  /\ Goto(t, "rb_add")
  /\ UNCHANGED <<lock, files, cacheStore, stack, local, builds, env>>

RbAdd(t) ==
  /\ pc[t] = "rb_add"
  /\ self' = [self EXCEPT !.index =
                Some(IndexAdd(Val(@), IndexRows(recsys_metric,
                                                load_csv_features(csv).X)))]
  /\ Goto(t, "rb_idmap")
  /\ UNCHANGED <<lock, files, cacheStore, stack, local, writer, builds, env>>

RbIdmap(t) ==
  /\ pc[t] = "rb_idmap"
  /\ self' = [self EXCEPT !.idmap = Some(load_csv_features(csv).ids)]
  /\ writer' = [writer EXCEPT !.idmap = local[t].gen]
  /\ Goto(t, "rb_save_index")
  /\ UNCHANGED <<lock, files, cacheStore, stack, local, builds, env>>

RbSaveIndex(t) ==
  /\ pc[t] = "rb_save_index"
  /\ files' = [files EXCEPT !.index = File(Val(self.index))]
  /\ Goto(t, "rb_save_scaler")
  /\ UNCHANGED <<self, lock, cacheStore, stack, local, writer, builds, env>>

RbSaveScaler(t) ==
  /\ pc[t] = "rb_save_scaler"
  /\ files' = [files EXCEPT !.scaler = File("mean_")]
  /\ Goto(t, "rb_save_idmap")
  /\ UNCHANGED <<self, lock, cacheStore, stack, local, writer, builds, env>>

\* _save without np.save(IDMAP_PATH, self.idmap)
RbSaveIdmapSkipped(t) ==
  /\ pc[t] = "rb_save_idmap"
  /\ Goto(t, "rb_rel")
  /\ UNCHANGED <<self, lock, files, cacheStore, stack, local, writer, builds, env>>

RbSaveIdmap(t) ==
  /\ pc[t] = "rb_save_idmap"
  /\ files' = [files EXCEPT !.idmap = File(Val(self.idmap))]
  /\ Goto(t, "rb_rel")
  /\ UNCHANGED <<self, lock, cacheStore, stack, local, writer, builds, env>>

RbRelease(t) ==
  /\ pc[t] = "rb_rel"
  /\ lock' = Released
  /\ Return(t, local[t])
  /\ UNCHANGED <<self, files, cacheStore, writer, builds, env>>

(***************************************************************************)
(* get_collaborative_scores (lines 242-308).  It takes no lock itself.     *)
(* The cache key collab:<route id> is modelled by the route id.            *)
(***************************************************************************)
GcReturn(t, scores) == Return(t, [local[t] EXCEPT !.collab = scores])

GcRaise(t) == Return(t, [local[t] EXCEPT !.exc = TRUE])

\* a get on a failing cache answered as a hit on an empty mapping
CacheGetFailureIsHit(key) == IF cacheUp THEN cacheStore[key] ELSE Some(EmptyDict)

\* CacheService.get (cache.py lines 42-60): None when disabled or absent
CacheGet(key) == IF cacheUp THEN cacheStore[key] ELSE None

\* CacheService.set (cache.py lines 62-82)
CacheSet(key, value) ==
  IF cacheUp THEN [cacheStore EXCEPT ![key] = Some(value)] ELSE cacheStore

GcCheck(t) ==
  /\ pc[t] = "gc_check"
  /\ IF self.user_route_matrix = None \/ self.route_to_matrix_idx = None
     THEN GcReturn(t, EmptyDict)
     ELSE Goto(t, "gc_cache") /\ UNCHANGED <<stack, local>>
  /\ UNCHANGED <<self, lock, files, cacheStore, writer, builds, env>>

GcCache(t) ==
  /\ pc[t] = "gc_cache"
  /\ IF CacheGet(local[t].activity_id) # None
     THEN GcReturn(t, Val(CacheGet(local[t].activity_id)))
     ELSE Goto(t, "gc_idx") /\ UNCHANGED <<stack, local>>
  /\ UNCHANGED <<self, lock, files, cacheStore, writer, builds, env>>

GcIdx(t) ==
  /\ pc[t] = "gc_idx"
  /\ IF local[t].activity_id \notin DOMAIN Val(self.route_to_matrix_idx)
     THEN GcReturn(t, EmptyDict)
     ELSE /\ Goto(t, "gc_col")
          /\ SetLocal(t, [local[t] EXCEPT !.query_idx =
                            Val(self.route_to_matrix_idx)[local[t].activity_id]])
          /\ UNCHANGED stack
  /\ UNCHANGED <<self, lock, files, cacheStore, writer, builds, env>>

GcColumn(t) ==
  /\ pc[t] = "gc_col"
  /\ IF SumSeq(Column(Val(self.user_route_matrix), local[t].query_idx)) = 0
     THEN GcReturn(t, EmptyDict)
     ELSE Goto(t, "gc_sim") /\ UNCHANGED <<stack, local>>
  /\ UNCHANGED <<self, lock, files, cacheStore, writer, builds, env>>

GcSimilarities(t) ==
  /\ pc[t] = "gc_sim"
  /\ LET scores == CollabScores(Val(self.user_route_matrix),
                                Val(self.route_to_matrix_idx), local[t].activity_id)
     IN  /\ cacheStore' = CacheSet(local[t].activity_id, scores)
         /\ GcReturn(t, scores)
  /\ UNCHANGED <<self, lock, files, writer, builds, env>>

\* the entry expires (ttl=1800)
CacheExpire(key) ==
  /\ cacheStore[key] # None
  /\ cacheStore' = [cacheStore EXCEPT ![key] = None]
  /\ UNCHANGED <<self, lock, files, pc, stack, local, writer, builds, env>>

(***************************************************************************)
(* search_by_activity (lines 310-498).  reads is the history of the        *)
(* builds whose index, idmap and feature_vectors the call has read.        *)
(***************************************************************************)
Read(loc, field) == [loc EXCEPT !.reads[field] = writer[field]]

SaAfterEnsureReady(t) ==
  /\ pc[t] = "sa_er_ret"
  /\ IF local[t].exc
     THEN Return(t, local[t])
     ELSE Goto(t, "sa_acq") /\ UNCHANGED <<stack, local>>
  /\ UNCHANGED <<self, lock, files, cacheStore, writer, builds, env>>

SaAcquire(t) ==
  /\ pc[t] = "sa_acq"
  /\ CanAcquire(t)
  /\ lock' = Acquired(t)
  /\ Goto(t, "sa_row")
  /\ UNCHANGED <<self, files, cacheStore, stack, local, writer, builds, env>>

SaRow(t) ==
  /\ pc[t] = "sa_row"
  /\ LET row == RowOf(self.idmap, local[t].activity_id)
         loc == [Read(local[t], "idmap") EXCEPT !.row = row]
     IN  IF row = 0
         THEN Goto(t, "sa_rel") /\ SetLocal(t, [loc EXCEPT !.result = Some(<<>>)])
         ELSE Goto(t, "sa_search") /\ SetLocal(t, loc)
  /\ UNCHANGED <<self, lock, files, cacheStore, stack, writer, builds, env>>

SaSearch(t) ==
  /\ pc[t] = "sa_search"
  /\ IF self.index = None \/ local[t].row > ntotal(Val(self.index))
     THEN Goto(t, "sa_rel") /\ SetLocal(t, [local[t] EXCEPT !.exc = TRUE])
     ELSE LET ix == Val(self.index)
              x == reconstruct(ix, local[t].row)
              pool_size == PoolSize(local[t].k, local[t].strategy)
          IN  /\ Goto(t, "sa_filter")
              /\ SetLocal(t, [Read(local[t], "index") EXCEPT
                                !.sr = IndexSearch(ix, x, pool_size)])
  /\ UNCHANGED <<self, lock, files, cacheStore, stack, writer, builds, env>>

SaFilter(t) ==
  /\ pc[t] = "sa_filter"
  /\ IF LookupRaises(self.idmap, local[t].sr)
     THEN Goto(t, "sa_rel") /\ SetLocal(t, [local[t] EXCEPT !.exc = TRUE])
     ELSE /\ Goto(t, "sa_strategy")
          /\ SetLocal(t, [Read(local[t], "idmap") EXCEPT
                            !.cands = IF self.idmap = None THEN <<>>
                                      ELSE FilterCandidates(Val(self.idmap), local[t].sr,
                                                            local[t].activity_id, 1)])
  /\ UNCHANGED <<self, lock, files, cacheStore, stack, writer, builds, env>>

Finished(loc, r) ==
  IF r.raised THEN [loc EXCEPT !.exc = TRUE] ELSE [loc EXCEPT !.result = Some(r.result)]

SaStrategy(t) ==
  /\ pc[t] = "sa_strategy"
  /\ LET loc == local[t]
     IN  IF loc.strategy = "content"
         THEN /\ Goto(t, "sa_rel") /\ UNCHANGED stack
              /\ SetLocal(t, Finished(loc, Returned(ContentTopK(loc.cands, loc.k))))
         ELSE IF loc.strategy = "content_mmr"
         THEN /\ Goto(t, "sa_rel") /\ UNCHANGED stack
              /\ SetLocal(t, Finished(Read(loc, "feature_vectors"),
                                      MmrResult(self.feature_vectors, loc.cands, loc.k,
                                                loc.lambda_diversity)))
         ELSE IF loc.strategy = "popularity"
         THEN /\ Goto(t, "sa_rel") /\ UNCHANGED stack
              /\ SetLocal(t, Finished(loc, Returned(
                               PopularityResult(loc.cands, self.popularity_scores, loc.k))))
         ELSE Call(t, "gc_check", "sa_gc_ret", loc)
  /\ UNCHANGED <<self, lock, files, cacheStore, writer, builds, env>>

SaAfterCollab(t) ==
  /\ pc[t] = "sa_gc_ret"
  /\ Goto(t, "sa_rel")
  /\ LET loc == local[t]
     IN  IF loc.exc THEN UNCHANGED local
         ELSE SetLocal(t, Finished(
                IF loc.strategy = "ensemble_mmr" THEN Read(loc, "feature_vectors") ELSE loc,
                EnsembleResult(loc.strategy, loc.cands, loc.k, loc.lambda_diversity,
                               self.feature_vectors, loc.collab)))
  /\ UNCHANGED <<self, lock, files, cacheStore, stack, writer, builds, env>>

SaRelease(t) ==
  /\ pc[t] = "sa_rel"
  /\ lock' = Released
  /\ Return(t, local[t])
  /\ UNCHANGED <<self, files, cacheStore, writer, builds, env>>

(***************************************************************************)
(* search_by_vector (lines 500-511).                                       *)
(***************************************************************************)
SvAfterEnsureReady(t) ==
  /\ pc[t] = "sv_er_ret"
  /\ IF local[t].exc
     THEN Return(t, local[t])
     ELSE Goto(t, "sv_acq") /\ UNCHANGED <<stack, local>>
  /\ UNCHANGED <<self, lock, files, cacheStore, writer, builds, env>>

SvAcquire(t) ==
  /\ pc[t] = "sv_acq"
  /\ CanAcquire(t)
  /\ lock' = Acquired(t)
  /\ Goto(t, "sv_search")
  /\ UNCHANGED <<self, files, cacheStore, stack, local, writer, builds, env>>

SvSearch(t) ==
  /\ pc[t] = "sv_search"
  /\ IF self.index = None
     THEN Goto(t, "sv_rel") /\ SetLocal(t, [local[t] EXCEPT !.exc = TRUE])
     ELSE \E vv \in {IF recsys_metric = "cosine" THEN NormalizeL2(local[t].vec)
                      ELSE AsRat(local[t].vec)} :
              /\ Goto(t, "sv_out")
              /\ SetLocal(t, [Read(local[t], "index") EXCEPT
                                !.sr = IndexSearch(Val(self.index), vv, local[t].k)])
  /\ UNCHANGED <<self, lock, files, cacheStore, stack, writer, builds, env>>

RECURSIVE VectorOut(_, _, _)
VectorOut(ids, sr, i) ==
  IF i > Len(sr.idx) THEN <<>>
  ELSE IF sr.idx[i] < 0 THEN VectorOut(ids, sr, i + 1)
  ELSE << <<ids[sr.idx[i]], sr.scores[i]>> >> \o VectorOut(ids, sr, i + 1)

SvOut(t) ==
  /\ pc[t] = "sv_out"
  /\ Goto(t, "sv_rel")
  /\ IF LookupRaises(self.idmap, local[t].sr)
     THEN SetLocal(t, [local[t] EXCEPT !.exc = TRUE])
     ELSE SetLocal(t, [Read(local[t], "idmap") EXCEPT
                         !.result = Some(IF self.idmap = None THEN <<>>
                                         ELSE VectorOut(Val(self.idmap), local[t].sr, 1))])
  /\ UNCHANGED <<self, lock, files, cacheStore, stack, writer, builds, env>>

SvRelease(t) ==
  /\ pc[t] = "sv_rel"
  /\ lock' = Released
  /\ Return(t, local[t])
  /\ UNCHANGED <<self, files, cacheStore, writer, builds, env>>

\* search_by_vector, once ensure_ready has returned, on a Recommender
\* holding index_ and idmap_ (lines 502-511)
VectorSearch(index_, idmap_, vec, k) ==
  IF index_ = None THEN Raised
  ELSE LET vv == IF recsys_metric = "cosine" THEN NormalizeL2(vec) ELSE AsRat(vec)
           sr == IndexSearch(Val(index_), vv, k)
       IN  IF LookupRaises(idmap_, sr) THEN Raised
           ELSE Returned(IF idmap_ = None THEN <<>> ELSE VectorOut(Val(idmap_), sr, 1))

(***************************************************************************)
(* The calls a thread makes: request handlers (routers/recommend.py,       *)
(* routers/demo.py), startup (main.py) and the scheduled job               *)
(* (scheduler.py).                                                         *)
(***************************************************************************)
Begin(t, label, st, loc) ==
  /\ pc[t] = "idle"
  /\ Goto(t, label)
  /\ stack' = [stack EXCEPT ![t] = st]
  /\ SetLocal(t, loc)
  /\ UNCHANGED <<self, lock, files, cacheStore, writer, builds, env>>

StartEnsureReady(t) ==
  Begin(t, "er_acq", <<"done">>, [LocalInit EXCEPT !.call = "ensure_ready"])

\* the cron job of scheduler.start, or POST /rebuild
StartRebuild(t) ==
  /\ builds < MaxRebuilds
  /\ Begin(t, "rb_acq", <<"done">>, [LocalInit EXCEPT !.call = "rebuild_from_csv"])

StartSearchByActivity(t, activity_id, k, strategy, lambda_diversity) ==
  Begin(t, "er_acq", <<"sa_er_ret", "done">>,
        [LocalInit EXCEPT !.call = "search_by_activity", !.activity_id = activity_id,
                          !.k = k, !.strategy = strategy,
                          !.lambda_diversity = lambda_diversity])

StartSearchByVector(t, vec, k) ==
  Begin(t, "er_acq", <<"sv_er_ret", "done">>,
        [LocalInit EXCEPT !.call = "search_by_vector", !.vec = vec, !.k = k])

StartGetCollaborativeScores(t, query_route_id) ==
  Begin(t, "gc_check", <<"done">>,
        [LocalInit EXCEPT !.call = "get_collaborative_scores",
                          !.activity_id = query_route_id])

\* the caller has its answer; the thread is free for the next call
Finish(t) ==
  /\ pc[t] = "done"
  /\ Goto(t, "idle")
  /\ SetLocal(t, LocalInit)
  /\ UNCHANGED <<self, lock, files, cacheStore, stack, writer, builds, env>>

AcquireStep(t) == ErAcquire(t) \/ RbAcquire(t) \/ SaAcquire(t) \/ SvAcquire(t)

EnsureReadyStep(t) ==
  ErCheck(t) \/ ErAfterTrained(t) \/ ErAfterCache(t) \/ ErAfterCsv(t) \/ ErRelease(t)

LoadTrainedModelStep(t) ==
  \/ LtmDir(t) \/ LtmScaler(t) \/ LtmEmbeddings(t) \/ LtmIdmap(t) \/ LtmPopularity(t)
  \/ LtmUserSeen(t) \/ LtmMaps(t) \/ LtmZeros(t) \/ LtmFill(t) \/ LtmFeatureVectors(t)
  \/ LtmIndex(t) \/ LtmAdd(t) \/ LtmWriteIndex(t) \/ LtmWriteIdmap(t)

LoadStep(t) == LoadExists(t) \/ LoadIndex(t) \/ LoadIdmap(t)

RebuildStep(t) ==
  \/ RbCsv(t) \/ RbScaler(t) \/ RbFeatureVectors(t) \/ RbIndex(t) \/ RbAdd(t)
  \/ RbIdmap(t) \/ RbSaveIndex(t) \/ RbSaveScaler(t) \/ RbSaveIdmap(t) \/ RbRelease(t)

CollabStep(t) ==
  GcCheck(t) \/ GcCache(t) \/ GcIdx(t) \/ GcColumn(t) \/ GcSimilarities(t)

SearchStep(t) ==
  \/ SaAfterEnsureReady(t) \/ SaRow(t) \/ SaSearch(t) \/ SaFilter(t) \/ SaStrategy(t)
  \/ SaAfterCollab(t) \/ SaRelease(t)
  \/ SvAfterEnsureReady(t) \/ SvSearch(t) \/ SvOut(t) \/ SvRelease(t)

\* a step of a call that is under way, other than taking the lock
Proceed(t) ==
  \/ EnsureReadyStep(t) \/ LoadTrainedModelStep(t) \/ LoadStep(t) \/ RebuildStep(t)
  \/ CollabStep(t) \/ SearchStep(t) \/ Finish(t)

\* the calls of one request thread, over all the inputs
StartCall(t) ==
  \/ StartEnsureReady(t)
  \/ StartRebuild(t)
  \/ \E a \in ActivityIds, k \in Ks, s \in Strategies, l \in Lambdas :
       /\ (HasMmr(s) \/ l = <<3, 10>>)
       /\ StartSearchByActivity(t, a, k, s, l)
  \/ \E v \in QueryVectors, k \in Ks : StartSearchByVector(t, v, k)
  \/ \E a \in ActivityIds : StartGetCollaborativeScores(t, a)

\* the calls of concurrent threads, over a few inputs
StartConcurrentCall(t) ==
  \/ StartEnsureReady(t)
  \/ StartRebuild(t)
  \/ \E a \in {"R1"}, s \in {"content_mmr", "ensemble"} :
       StartSearchByActivity(t, a, 1, s, <<3, 10>>)
  \/ StartSearchByVector(t, <<5, 0>>, 1)
  \/ StartGetCollaborativeScores(t, "R1")

Expire == \E a \in ActivityIds : CacheExpire(a)

\* one caller at a time
Next ==
  \/ StartCall("t1") \/ AcquireStep("t1") \/ Proceed("t1")
  \/ Expire

Spec == Init /\ [][Next]_vars

\* request threads and the scheduler thread side by side
ConcurrentNext ==
  \/ \E t \in Threads : StartConcurrentCall(t) \/ AcquireStep(t) \/ Proceed(t)
  \/ Expire

ConcurrentSpec == Init /\ [][ConcurrentNext]_vars

\* one caller asking the blending strategies for up to MaxWideK items, so
\* that the pool of k + 1 neighbours holds several candidates
StartWideCall(t) ==
  \/ StartEnsureReady(t)
  \/ StartRebuild(t)
  \/ \E a \in {"R1", "R4"}, k \in 1..MaxWideK, s \in {"ensemble", "popularity"} :
       StartSearchByActivity(t, a, k, s, <<3, 10>>)
  \/ StartSearchByVector(t, <<5, 0>>, 1)

WideNext ==
  \/ StartWideCall("t1") \/ AcquireStep("t1") \/ Proceed("t1")
  \/ Expire

WideSpec == Init /\ [][WideNext]_vars

\* the calls the deployment makes from several threads: the startup
\* ensure_ready (main.py line 95), the scheduled and the requested rebuild
\* (scheduler.py lines 7-11, recommend.py line 206) and the searches
StartDeployedCall(t) ==
  \/ StartEnsureReady(t)
  \/ StartRebuild(t)
  \/ StartSearchByActivity(t, "R1", 1, "ensemble", <<3, 10>>)
  \/ StartSearchByVector(t, <<5, 0>>, 1)

DeployedInit ==
  /\ Init
  /\ trained.dir => Loadable(trained) /\ IsFile(trained.user_seen)
  /\ files.index # Corrupt
  /\ csv = <<>> \/ csv[1].id # NoId
  /\ csv = <<>> => files.index = Missing /\ ~trained.dir
  /\ cacheUp

DeployedNext ==
  \/ \E t \in Threads : StartDeployedCall(t) \/ AcquireStep(t) \/ Proceed(t)
  \/ Expire

\* Threads are scheduled fairly, and a thread waiting for the lock gets it
FairSpec ==
  /\ DeployedInit /\ [][DeployedNext]_vars
  /\ \A t \in Threads : WF_vars(Proceed(t)) /\ SF_vars(AcquireStep(t))

\* the labels of a thread that is writing the cache artifacts: from the
\* write of the index file to the write of the idmap file (lines 44-45 and
\* 213-214)
WritingLabels ==
  {"rb_save_index", "rb_save_scaler", "rb_save_idmap", "ltm_write_index", "ltm_write_idmap"}

\* the process stops while a thread writes the artifacts and is started
\* again: the files and the cache server stay, a new Recommender is made.
\* Every stop is followed by a new build, so the bound on the builds bounds
\* the stops.
Stop ==
  /\ \E t \in Threads : pc[t] \in WritingLabels
  /\ builds < MaxRebuilds
  /\ self' = SelfInit
  /\ lock' = [owner |-> None, count |-> 0]
  /\ pc' = [t \in Threads |-> "idle"]
  /\ stack' = [t \in Threads |-> <<>>]
  /\ local' = [t \in Threads |-> LocalInit]
  /\ writer' = NoReads
  /\ UNCHANGED <<files, cacheStore, builds, env>>

StopNext ==
  \/ StartDeployedCall("t1") \/ AcquireStep("t1") \/ Proceed("t1")
  \/ Expire
  \/ Stop

StopSpec == Init /\ [][StopNext]_vars

(***************************************************************************)
(* Properties.                                                             *)
(***************************************************************************)
Quiet == \A t \in Threads : pc[t] \in {"idle", "done"}

RebuildLabels ==
  {"rb_csv", "rb_scaler", "rb_fv", "rb_index", "rb_add", "rb_idmap",
   "rb_save_index", "rb_save_scaler", "rb_save_idmap", "rb_rel"}

CollabLabels == {"gc_check", "gc_cache", "gc_idx", "gc_col", "gc_sim"}

SearchLabels ==
  {"sa_row", "sa_search", "sa_filter", "sa_strategy", "sa_gc_ret", "sa_rel",
   "sv_search", "sv_out", "sv_rel"}

IsSearch(t) == local[t].call \in {"search_by_activity", "search_by_vector"}

\* t is inside the with block of a search
InSearch(t) ==
  IsSearch(t) /\ (pc[t] \in SearchLabels \/ pc[t] \in CollabLabels)

\* t is inside the with block of rebuild_from_csv
InRebuild(t) == pc[t] \in RebuildLabels

\* C1: between calls, whenever index is set, idmap is set and holds one id
\* for every vector of the index
C1_IdmapMatchesIndex ==
  (Quiet /\ self.index # None) =>
     (self.idmap # None /\ Len(Val(self.idmap)) = ntotal(Val(self.index)))

\* the builds a search has read index, idmap and feature_vectors of
ReadGens(t) ==
  {local[t].reads[f] : f \in {"index", "idmap", "feature_vectors"}} \ {None}

IsRebuildGen(g) == Val(g)[1] = "csv"

\* C2: a search runs its with block while no rebuild_from_csv is inside its
\* own, and whatever it has read of a rebuild's index, idmap and
\* feature_vectors it has read of that one rebuild only
C2_SearchSeesOneBuild ==
  \A t \in Threads :
    /\ InSearch(t) => \A w \in Threads \ {t} : ~InRebuild(w)
    /\ IsSearch(t) =>
         \A g \in ReadGens(t) : IsRebuildGen(g) => ReadGens(t) = {g}

C2_Witness ==
  \E t \in Threads, w \in Threads :
    /\ local[t].call = "search_by_activity" /\ pc[t] = "done"
    /\ local[t].reads = [index |-> Some(<<"csv", 1>>), idmap |-> Some(<<"csv", 1>>),
                         feature_vectors |-> Some(<<"csv", 1>>)]
    /\ pc[w] = "rb_add"

\* C3: ensure_ready leaves by an exception only after the trained model,
\* the cached index and the rebuild from the CSV have all been tried and
\* have all failed
C3_RaisesOnlyWhenAllFailed ==
  \A t \in Threads :
    (pc[t] = "er_rel" /\ local[t].exc) =>
       /\ Len(local[t].attempts) = 3
       /\ \A i \in 1..3 : local[t].attempts[i].res = "failed"

SourceOrder == <<"trained", "cache", "csv">>

\* C4: the sources ensure_ready has tried are a prefix of trained model,
\* cached index, CSV rebuild, and every one but the last has failed
C4_SourcesInOrder ==
  \A t \in Threads :
    LET a == local[t].attempts
    IN  /\ Len(a) <= Len(SourceOrder)
        /\ \A i \in 1..Len(a) : a[i].src = SourceOrder[i]
        /\ \A i \in 1..(Len(a) - 1) : a[i].res = "failed"
        /\ (pc[t] \in {"er_rel", "sa_er_ret", "sv_er_ret"} /\ ~local[t].erReady)
             => Len(a) >= 1

C4_Witness ==
  \E t \in Threads :
    /\ pc[t] = "done" /\ local[t].call = "ensure_ready"
    /\ Len(local[t].attempts) = 3
    /\ local[t].attempts[3].res = "ok"

\* C5: a call of ensure_ready that finds index set tries no source and
\* changes neither a field of the Recommender nor a file, up to its return
C5_ReadyIsNoOp ==
  /\ [](\A t \in Threads :
          (local[t].call = "ensure_ready" /\ local[t].erReady)
             => local[t].attempts = <<>>)
  /\ [][\A t \in Threads :
          (/\ local[t].call = "ensure_ready"
           /\ pc'[t] # pc[t]
           /\ \/ pc[t] = "er_check" /\ self.index # None
              \/ pc[t] = "er_rel" /\ local[t].erReady)
          => /\ self' = self /\ files' = files /\ cacheStore' = cacheStore
             /\ pc'[t] = (IF pc[t] = "er_check" THEN "er_rel" ELSE "done")]_vars

C5_Witness ==
  \E t \in Threads :
    /\ pc[t] = "done" /\ local[t].call = "ensure_ready"
    /\ local[t].erReady /\ self.index # None

\* C6: whenever no call is under way the lock is free, and under fair
\* scheduling every call that has started returns
C6_LockNeverBlocksForever ==
  /\ [](Quiet => lock = [owner |-> None, count |-> 0])
  /\ \A t \in Threads : (pc[t] # "idle") ~> (pc[t] = "done")

\* ensure_ready holds the lock and rebuild_from_csv has taken it again
C6_Witness ==
  \E t \in Threads : pc[t] = "rb_csv" /\ lock = [owner |-> Some(t), count |-> 2]

\* load_trained_model is filling the interaction matrix
Populating(w) ==
  /\ pc[w] = "ltm_fill"
  /\ local[w].u <= Cardinality(DOMAIN Val(self.user_seen))

\* C7: get_collaborative_scores never reads user_route_matrix while
\* load_trained_model, on another thread, is still filling it
C7_NoReadWhilePopulating ==
  \A t \in Threads, w \in Threads :
    (pc[t] \in {"gc_col", "gc_sim"} /\ w # t) => ~Populating(w)

NotInIdmap(activity_id) ==
  self.idmap = None \/ activity_id \notin Range(Val(self.idmap))

\* C8: with index set, search_by_activity for an id that idmap does not hold
\* returns the empty list without raising, and no step of it changes index,
\* idmap or feature_vectors
C8_AbsentIdGivesEmpty ==
  /\ [](\A t \in Threads :
          (/\ pc[t] = "done" /\ local[t].call = "search_by_activity"
           /\ local[t].erReady /\ NotInIdmap(local[t].activity_id))
          => (~local[t].exc /\ local[t].result = Some(<<>>)))
  /\ [][\A t \in Threads :
          (/\ local[t].call = "search_by_activity" /\ local[t].erReady
           /\ NotInIdmap(local[t].activity_id) /\ pc'[t] # pc[t])
          => (/\ self'.index = self.index /\ self'.idmap = self.idmap
              /\ self'.feature_vectors = self.feature_vectors)]_vars

C8_Witness ==
  \E t \in Threads :
    /\ pc[t] = "done" /\ local[t].call = "search_by_activity"
    /\ local[t].erReady /\ NotInIdmap(local[t].activity_id)
    /\ local[t].strategy = "ensemble_mmr" /\ local[t].k = 2
    /\ self.idmap # None /\ local[t].result = Some(<<>>)

\* C9: a list search_by_activity returns has at most k pairs
C9_AtMostK ==
  \A t \in Threads :
    (pc[t] = "done" /\ local[t].call = "search_by_activity" /\ local[t].result # None)
       => Len(Val(local[t].result)) <= local[t].k

C9_Witness ==
  \E t \in Threads :
    /\ pc[t] = "done" /\ local[t].call = "search_by_activity"
    /\ local[t].strategy = "ensemble_mmr" /\ local[t].k = 2
    /\ local[t].result # None /\ Len(Val(local[t].result)) = 2
    /\ Len(local[t].cands) = 3

\* C10: no pair of a list search_by_activity returns carries the query id
C10_NoQueryItem ==
  \A t \in Threads :
    (pc[t] = "done" /\ local[t].call = "search_by_activity" /\ local[t].result # None)
       => \A i \in 1..Len(Val(local[t].result)) :
            Val(local[t].result)[i][1] # local[t].activity_id

C10_Witness ==
  \E t \in Threads :
    /\ pc[t] = "done" /\ local[t].call = "search_by_activity"
    /\ local[t].result # None /\ Len(Val(local[t].result)) = 2
    /\ ~NotInIdmap(local[t].activity_id)
    /\ Cardinality({i \in 1..Len(Val(self.idmap)) :
                      Val(self.idmap)[i] = local[t].activity_id}) = 2

(***************************************************************************)
(* Both values of settings.recsys_metric (config.py line 26): "cosine"     *)
(* builds an IndexFlatIP, anything else an IndexFlatL2.  One caller, on a  *)
(* trained model that loads, a cached index, or the seed CSV.              *)
(***************************************************************************)
Metrics == {"cosine", "euclidean"}

MetricInit ==
  /\ self = SelfInit
  /\ lock = [owner |-> None, count |-> 0]
  /\ trained \in {tm \in TrainedModels :
                    ~tm.dir \/ (Loadable(tm) /\ IsFile(tm.user_seen))}
  /\ files \in IF trained.dir THEN {d \in IndexDirs : d.index = Missing}
               ELSE {d \in IndexDirs : d.index # Corrupt /\ d.idmap # Corrupt}
  /\ csv \in {c \in SeedCsvs : c # <<>> /\ c[1].id # NoId}
  /\ recsys_metric \in Metrics
  /\ cacheUp = TRUE
  /\ cacheStore = [a \in ActivityIds |-> None]
  /\ pc = [t \in Threads |-> "idle"]
  /\ stack = [t \in Threads |-> <<>>]
  /\ local = [t \in Threads |-> LocalInit]
  /\ writer = NoReads
  /\ builds = 0
  /\ mmr = NoMmrCall

MetricSpec == MetricInit /\ [][Next]_vars

\* t has returned from search_by_activity with a list
Answered(t, strategy) ==
  /\ pc[t] = "done" /\ local[t].call = "search_by_activity"
  /\ local[t].strategy = strategy /\ local[t].result # None

\* C11: under strategy content the scores of the returned pairs never
\* increase along the list, whichever metric is configured
C11_ContentDescendingScore ==
  \A t \in Threads :
    Answered(t, "content") =>
      LET r == Val(local[t].result)
      IN  \A i \in 1..Len(r), j \in 1..Len(r) : i < j => RLe(r[j][2], r[i][2])

\* the positions of a search result the candidate loop keeps
KeptPositions(t) ==
  {i \in 1..Len(local[t].sr.idx) :
     /\ local[t].sr.idx[i] >= 0
     /\ Val(self.idmap)[local[t].sr.idx[i]] # local[t].activity_id}

\* C12: when the strategy starts, the search has asked for k + 1 neighbours
\* (k * 10 for the strategies with MMR), the rows it found are distinct rows
\* of the index listed before the padding, and the candidates are the found
\* rows, in that order, without the rows of the query id
C12_PoolIsNeighbourList ==
  \A t \in Threads :
    pc[t] = "sa_strategy" =>
      LET loc == local[t]
          sr == loc.sr
          want == IF loc.strategy \in {"content_mmr", "ensemble_mmr"}
                  THEN loc.k * 10 ELSE loc.k + 1
          n == ntotal(Val(self.index))
          found == IF want < n THEN want ELSE n
      IN  /\ Len(sr.idx) = want /\ Len(sr.scores) = want
          /\ \A i \in 1..want : (i <= found) <=> (sr.idx[i] \in 1..n)
          /\ \A i \in 1..want : i > found => sr.idx[i] = -1
          /\ \A i \in 1..found, j \in 1..found : i # j => sr.idx[i] # sr.idx[j]
          /\ Len(loc.cands) = Cardinality(KeptPositions(t))
          /\ \A m \in 1..Len(loc.cands) :
               \E p \in KeptPositions(t) :
                 /\ Cardinality({q \in KeptPositions(t) : q <= p}) = m
                 /\ loc.cands[m] = [id |-> Val(self.idmap)[sr.idx[p]],
                                    row |-> sr.idx[p], score |-> sr.scores[p]]

C12_Witness ==
  \E t \in Threads :
    /\ pc[t] = "sa_strategy" /\ local[t].strategy = "ensemble_mmr" /\ local[t].k = 2
    /\ Len(local[t].sr.idx) = 20 /\ local[t].sr.idx[20] = -1
    /\ Len(local[t].cands) = 3

\* t has returned a list from content_mmr run with this lambda_diversity
MmrAnswered(t, lambda_diversity) ==
  /\ Answered(t, "content_mmr")
  /\ local[t].lambda_diversity = lambda_diversity

\* the scores of the candidate pool never increase along the pool
PoolDescending(t) ==
  \A i \in 1..Len(local[t].cands), j \in 1..Len(local[t].cands) :
    i < j => RLe(local[t].cands[j].score, local[t].cands[i].score)

\* the ids of a list of (id, score) pairs
PairIds(r) == [i \in 1..Len(r) |-> r[i][1]]

\* the returned ids are the first k ids of the pool, as content orders them
SameOrderAsContent(t) ==
  PairIds(Val(local[t].result)) = PairIds(ContentTopK(local[t].cands, local[t].k))

C14_LambdaZeroIsPureRelevance ==
  \A t \in Threads :
    MmrAnswered(t, <<0, 1>>) /\ PoolDescending(t) => SameOrderAsContent(t)

\* t has come back from search_by_activity after ensure_ready succeeded
Searched(t, strategy) ==
  /\ pc[t] = "done" /\ local[t].call = "search_by_activity"
  /\ local[t].strategy = strategy
  /\ (local[t].result # None \/ local[t].row # 0)

\* what the call of t gave its caller
Outcome(t) ==
  IF local[t].exc THEN Raised ELSE Returned(Val(local[t].result))

\* what strategy content gives for the query and k of t on the same index
ContentOutcome(t) ==
  ContentSearch(self.index, self.idmap, local[t].activity_id, local[t].k)

\* get_collaborative_scores gave t no score
NoCollab(t) == DOMAIN local[t].collab = {}

\* C15: for a query item without collaborative scores strategy ensemble
\* gives the list of strategy content: same ids, same order, same scores
C15_EnsembleFallsBackToContent ==
  \A t \in Threads :
    Searched(t, "ensemble") /\ NoCollab(t) => Outcome(t) = ContentOutcome(t)

\* an interaction matrix is loaded, the query item has no score in it
C15_Witness ==
  \E t \in Threads :
    /\ Searched(t, "ensemble") /\ NoCollab(t)
    /\ self.user_route_matrix # None
    /\ ~local[t].exc /\ Len(Val(local[t].result)) = 2

\* C16: without collaborative scores for the query item strategy
\* ensemble_mmr gives the list of strategy content for the same k, and
\* raises no error where content raises none
C16_EnsembleMmrFallsBackToContent ==
  \A t \in Threads :
    Searched(t, "ensemble_mmr") /\ NoCollab(t) => Outcome(t) = ContentOutcome(t)

\* no popularity data is loaded
NoPopularity == DOMAIN self.popularity_scores = {}

\* C17: without popularity data strategy popularity gives the list of
\* strategy content for the same k and index, and raises where content does
C17_PopularityFallsBackToContent ==
  \A t \in Threads :
    Searched(t, "popularity") /\ NoPopularity => Outcome(t) = ContentOutcome(t)

C17_Witness ==
  \E t \in Threads :
    /\ Searched(t, "popularity") /\ NoPopularity
    /\ ~local[t].exc /\ Len(Val(local[t].result)) = 2

\* the popularity of a route, 0 without an entry
PopularityOf(id) == DictGet(self.popularity_scores, id, 0)

\* the popularities of the candidate pool of t
PoolPopularity(t) ==
  [i \in 1..Len(local[t].cands) |-> RInt(PopularityOf(local[t].cands[i].id))]

Saved(t) == pc[t] = "rb_rel" /\ ~local[t].exc

\* the index and idmap a fresh Recommender holds after _load (lines 50-51)
LoadedIndex == Some(Content(files.index))

LoadedIdmap == Some(Content(files.idmap))

CollabReturned(t) ==
  \/ pc[t] = "sa_gc_ret"
  \/ pc[t] = "done" /\ local[t].call = "get_collaborative_scores"

\* the scores computed from the interaction matrix for the query of t
FreshScores(t) ==
  CollabFresh(self.user_route_matrix, self.route_to_matrix_idx, local[t].activity_id)

\* t has returned from an ensemble strategy whose pool was filtered
EnsembleSearched(t) ==
  /\ pc[t] = "done" /\ local[t].call = "search_by_activity"
  /\ local[t].strategy \in {"ensemble", "ensemble_mmr"}
  /\ local[t].sr # NoSearch /\ ~LookupRaises(self.idmap, local[t].sr)

\* C20: whether the cache is disabled or failing, misses or hits,
\* get_collaborative_scores returns the mapping computed from the
\* interaction matrix and raises nothing, and search_by_activity returns
\* the list computed from that mapping
C20_CacheIsBestEffort ==
  \A t \in Threads :
    /\ CollabReturned(t) => ~local[t].exc /\ local[t].collab = FreshScores(t)
    /\ EnsembleSearched(t) =>
         Outcome(t) = EnsembleResult(local[t].strategy, local[t].cands, local[t].k,
                                     local[t].lambda_diversity, self.feature_vectors,
                                     FreshScores(t))

\* with the cache down an ensemble search blends scores that are not empty
C20_Witness ==
  \E t \in Threads :
    /\ EnsembleSearched(t) /\ local[t].strategy = "ensemble"
    /\ ~cacheUp /\ ~NoCollab(t)
    /\ ~local[t].exc /\ Val(local[t].result) # <<>>

(***************************************************************************)
(* mmr_rerank called on its own (mmr_reranker.py lines 9-99), one action    *)
(* per step of the function: the two early returns, the normalization, one  *)
(* iteration of the selection loop, the construction of the results.        *)
(***************************************************************************)
MmrVectors == {<<5, 0>>, <<4, 3>>, <<0, 5>>}

MmrScores == {RInt(0), <<1, 2>>, RInt(1)}

PoolIds == <<"c1", "c2", "c3", "c4", "c5", "c6">>

\* a pool is a list of (vector, similarity score) of at most MaxPool candidates
Pools == UNION {[1..n -> MmrVectors \X MmrScores] : n \in 0..MaxPool}

TopMs == 1..MaxTopM

MmrCall(pool, top_m, lambda_diversity) ==
  [pc |-> "start",
   candidate_vectors |-> [i \in 1..Len(pool) |-> pool[i][1]],
   candidate_ids |-> Take(PoolIds, Len(pool)),
   similarity_scores |-> [i \in 1..Len(pool) |-> pool[i][2]],
   top_m |-> top_m, lambda_diversity |-> lambda_diversity,
   normalized_vectors |-> <<>>, norm_similarity |-> <<>>,
   selected_indices |-> <<>>, remaining_indices |-> <<>>,
   iteration |-> 0, results |-> <<>>]

MmrInit ==
  /\ self = SelfInit
  /\ lock = [owner |-> None, count |-> 0]
  /\ trained = CHOOSE tm \in TrainedModels : ~tm.dir
  /\ files = CHOOSE d \in IndexDirs : d.index = Missing
  /\ csv = <<>>
  /\ recsys_metric = "cosine"
  /\ cacheUp = TRUE
  /\ cacheStore = [a \in ActivityIds |-> None]
  /\ pc = [t \in Threads |-> "idle"]
  /\ stack = [t \in Threads |-> <<>>]
  /\ local = [t \in Threads |-> LocalInit]
  /\ writer = NoReads
  /\ builds = 0
  /\ mmr \in {MmrCall(pool, top_m, lambda_diversity) :
                pool \in Pools, top_m \in TopMs, lambda_diversity \in Lambdas}

MmrUnchanged ==
  UNCHANGED <<self, lock, files, trained, csv, recsys_metric, cacheUp, cacheStore,
              pc, stack, local, writer, builds>>

\* lines 29-30
MmrEmpty ==
  /\ mmr.pc = "start" /\ Len(mmr.candidate_ids) = 0
  /\ mmr' = [mmr EXCEPT !.pc = "returned", !.results = <<>>]
  /\ MmrUnchanged

\* the early return giving the normalized scores the loop would give
MmrShortNormalized ==
  /\ mmr.pc = "start" /\ Len(mmr.candidate_ids) # 0
  /\ Len(mmr.candidate_ids) <= mmr.top_m
  /\ mmr' = [mmr EXCEPT !.pc = "returned",
                        !.results = [i \in 1..Len(mmr.candidate_ids) |->
                                       <<mmr.candidate_ids[i],
                                         NormSimilarity(mmr.similarity_scores)[i]>>]]
  /\ MmrUnchanged

\* lines 32-34
MmrShort ==
  /\ mmr.pc = "start" /\ Len(mmr.candidate_ids) # 0
  /\ Len(mmr.candidate_ids) <= mmr.top_m
  /\ mmr' = [mmr EXCEPT !.pc = "returned",
                        !.results = [i \in 1..Len(mmr.candidate_ids) |->
                                       <<mmr.candidate_ids[i], mmr.similarity_scores[i]>>]]
  /\ MmrUnchanged

\* lines 39-55
MmrNormalize ==
  /\ mmr.pc = "start" /\ Len(mmr.candidate_ids) > mmr.top_m
  /\ mmr' = [mmr EXCEPT !.pc = "loop",
                        !.normalized_vectors =
                           [i \in 1..Len(mmr.candidate_vectors) |->
                              NormalizeL2(mmr.candidate_vectors[i])],
                        !.norm_similarity = NormSimilarity(mmr.similarity_scores),
                        !.selected_indices = <<>>,
                        !.remaining_indices = [i \in 1..Len(mmr.candidate_ids) |-> i]]
  /\ MmrUnchanged

\* range(min(top_m, len(candidate_ids))) of line 58
MmrIterations ==
  IF mmr.top_m < Len(mmr.candidate_ids) THEN mmr.top_m ELSE Len(mmr.candidate_ids)

\* one iteration of the loop, lines 58-89
MmrSelect ==
  /\ mmr.pc = "loop" /\ mmr.iteration < MmrIterations /\ mmr.remaining_indices # <<>>
  /\ LET mmr_scores == [idx \in 1..Len(mmr.norm_similarity) |->
                          MmrScore(mmr.lambda_diversity, mmr.norm_similarity[idx],
                                   MaxSimToSelected(mmr.normalized_vectors, idx,
                                                    mmr.selected_indices))]
         best_idx == FirstMax(mmr_scores, mmr.remaining_indices)
     IN  mmr' = [mmr EXCEPT !.iteration = @ + 1,
                            !.selected_indices = Append(@, best_idx),
                            !.remaining_indices = RemoveFirst(@, best_idx)]
  /\ MmrUnchanged

\* the loop is over: lines 91-99
MmrResults ==
  /\ mmr.pc = "loop"
  /\ mmr.iteration >= MmrIterations \/ mmr.remaining_indices = <<>>
  /\ mmr' = [mmr EXCEPT !.pc = "returned",
                        !.results = [r \in 1..Len(mmr.selected_indices) |->
                                       <<mmr.candidate_ids[mmr.selected_indices[r]],
                                         mmr.norm_similarity[mmr.selected_indices[r]]>>]]
  /\ MmrUnchanged

MmrNext == MmrEmpty \/ MmrShort \/ MmrNormalize \/ MmrSelect \/ MmrResults

MmrSpec == MmrInit /\ [][MmrNext]_vars

\* the call of mmr_rerank reranks: it has more candidates than top_m
Reranking == mmr.pc \in {"loop", "returned"} /\ Len(mmr.candidate_ids) > mmr.top_m

\* cosine similarity of candidates i and j
Cosine(i, j) == InnerProduct(mmr.normalized_vectors[i], mmr.normalized_vectors[j])

\* lambda * relevance - (1 - lambda) * max_similarity_to_selected of candidate
\* idx when chosen holds the selected candidates
MarginalRelevance(idx, chosen) ==
  LET similar == IF chosen = <<>> THEN RInt(0)
                 ELSE CHOOSE m \in {Cosine(idx, chosen[c]) : c \in 1..Len(chosen)} :
                        \A c \in 1..Len(chosen) : RLe(Cosine(idx, chosen[c]), m)
  IN  RSub(RMul(mmr.lambda_diversity, mmr.norm_similarity[idx]),
           RMul(RSub(RInt(1), mmr.lambda_diversity), similar))

\* the candidates selected before the n-th selection
SelectedBefore(n) == SubSeq(mmr.selected_indices, 1, n - 1)

\* the candidates remaining before the n-th selection
RemainingBefore(n) == (1..Len(mmr.candidate_ids)) \ Range(SelectedBefore(n))

EqualRelevance ==
  \A i \in 1..Len(mmr.similarity_scores), j \in 1..Len(mmr.similarity_scores) :
    mmr.similarity_scores[i] = mmr.similarity_scores[j]

\* C22: on a pool of equal relevance scores, with top_m = 2 and
\* lambda_diversity below 1, no remaining candidate is less similar (cosine)
\* to the first pick than the second pick is
C22_SecondPickIsLeastSimilar ==
  /\ Reranking /\ mmr.top_m = 2 /\ EqualRelevance
  /\ RLt(mmr.lambda_diversity, RInt(1)) /\ Len(mmr.selected_indices) = 2
  => \A idx \in RemainingBefore(2) :
       RLe(Cosine(mmr.selected_indices[2], mmr.selected_indices[1]),
           Cosine(idx, mmr.selected_indices[1]))

\* the candidate next in input order is nearer to the first pick than the
\* one selected second
C22_Witness ==
  /\ Reranking /\ mmr.top_m = 2 /\ EqualRelevance
  /\ RLt(mmr.lambda_diversity, RInt(1))
  /\ mmr.selected_indices = <<1, 3>>
  /\ RLt(Cosine(3, 1), Cosine(2, 1))

\* C23: a pool of at most top_m candidates comes back whole, in input
\* order, with the input scores, for every lambda_diversity; an empty pool
\* gives the empty list
C23_ShortPoolUnchanged ==
  mmr.pc = "returned" /\ Len(mmr.candidate_ids) <= mmr.top_m =>
    /\ Len(mmr.results) = Len(mmr.candidate_ids)
    /\ \A i \in 1..Len(mmr.results) :
         mmr.results[i] = <<mmr.candidate_ids[i], mmr.similarity_scores[i]>>
    /\ mmr.selected_indices = <<>>

\* two candidates whose scores normalization would change, returned as given
C23_Witness ==
  /\ mmr.pc = "returned" /\ mmr.top_m = 2
  /\ mmr.results = << <<"c1", <<1, 2>>>>, <<"c2", RInt(1)>> >>

\* the value x min-max normalized over the values xs of the pool, 0 when
\* all of them are equal
Normalized(x, xs) ==
  LET lo == SeqMin(xs)
      hi == SeqMax(xs)
  IN  IF RLt(lo, hi) THEN RDiv(RSub(x, lo), RSub(hi, lo)) ELSE RInt(0)

\* the collaborative scores of the pool of t, 0 without an entry
PoolCollab(t) ==
  [i \in 1..Len(local[t].cands) |->
     DictGet(local[t].collab, local[t].cands[i].id, RInt(0))]

\* 0.6 * normalized content score + 0.4 * normalized collaborative score of
\* the candidate at position c of the pool of t
Blended(t, c) ==
  RAdd(RMul(<<6, 10>>, Normalized(local[t].cands[c].score, CandScores(local[t].cands))),
       RMul(<<4, 10>>, Normalized(PoolCollab(t)[c], PoolCollab(t))))

\* C24: with collaborative scores strategy ensemble returns the k
\* candidates of highest blended score, in descending order of it, each
\* with the score 0.6 * normalized content + 0.4 * normalized collaborative
C24_EnsembleBlend ==
  \A t \in Threads :
    Answered(t, "ensemble") /\ ~NoCollab(t) =>
      LET r == Val(local[t].result)
          cands == local[t].cands
      IN  /\ Len(r) = IF local[t].k < Len(cands) THEN local[t].k ELSE Len(cands)
          /\ \A n \in 1..Len(r) :
               /\ \E c \in 1..Len(cands) :
                    cands[c].id = r[n][1] /\ Blended(t, c) = r[n][2]
               /\ Cardinality({c \in 1..Len(cands) : RLt(r[n][2], Blended(t, c))}) < n
          /\ \A i \in 1..Len(r), j \in 1..Len(r) : i < j => RLe(r[j][2], r[i][2])

\* the blend puts first a candidate that content puts second
C24_Witness ==
  \E t \in Threads :
    /\ Answered(t, "ensemble") /\ ~NoCollab(t)
    /\ Len(local[t].cands) = 3 /\ Len(Val(local[t].result)) = 3
    /\ Val(local[t].result)[1][1] = local[t].cands[2].id
    /\ RLt(Val(local[t].result)[1][2], RInt(1))
    /\ RLt(RInt(0), Val(local[t].result)[2][2])

\* the query item of t is a column of the loaded interaction matrix and
\* some user has interacted with it
HasInteractions(t) ==
  /\ self.user_route_matrix # None /\ self.route_to_matrix_idx # None
  /\ local[t].activity_id \in DOMAIN Val(self.route_to_matrix_idx)
  /\ \E u \in 1..Len(Val(self.user_route_matrix)) :
       Val(self.user_route_matrix)[u][Val(self.route_to_matrix_idx)[local[t].activity_id]] # 0

EnsureReadySucceeded(t) ==
  \/ pc[t] = "done" /\ local[t].call = "ensure_ready" /\ ~local[t].exc
  \/ pc[t] \in {"sa_er_ret", "sv_er_ret"} /\ ~local[t].exc

\* C26: after a successful ensure_ready, whichever source succeeded,
\* feature_vectors is set and has one row per row of the index, so that the
\* strategies with MMR have the vectors of their candidates
C26_FeatureVectorsAfterEnsureReady ==
  \A t \in Threads :
    EnsureReadySucceeded(t) =>
      /\ self.index # None /\ self.feature_vectors # None
      /\ Len(Val(self.feature_vectors)) = ntotal(Val(self.index))

\* no call is under way and an index is loaded
Ready == Quiet /\ self.index # None /\ self.idmap # None

\* the item ids of the interaction matrix columns and of the popularity table
SideTableIds ==
  (IF self.route_to_matrix_idx = None THEN {} ELSE DOMAIN Val(self.route_to_matrix_idx))
    \cup DOMAIN self.popularity_scores

\* C27: in every Ready state the ids keying the interaction matrix columns
\* and the popularity table are ids of the current idmap, also after
\* rebuild_from_csv has replaced the index load_trained_model built
C27_SideTablesMatchIdmap ==
  Ready => SideTableIds \subseteq Range(Val(self.idmap))

\* the fields of the Recommender when the i-th attempt of the ensure_ready
\* of t was over
AfterAttempt(t, i) ==
  IF i < Len(local[t].attempts) THEN local[t].attempts[i + 1].before ELSE self

\* C28: an attempt of ensure_ready that has failed (load_trained_model
\* returning False, _load or rebuild_from_csv raising) has left every field
\* of the Recommender as it was when the attempt began
C28_FailedAttemptChangesNothing ==
  \A t \in Threads :
    \A i \in 1..Len(local[t].attempts) :
      local[t].attempts[i].res = "failed" =>
        AfterAttempt(t, i) = local[t].attempts[i].before

\* _load has returned True to the ensure_ready of t
Loaded(t) == pc[t] = "er_ld_ret" /\ local[t].retb /\ ~local[t].exc

\* C29: when the process has stopped while the artifacts were written, a
\* later _load returns False or loads an index and an idmap of one build,
\* with one id for every vector
C29_LoadAfterStop ==
  \A t \in Threads :
    Loaded(t) =>
      /\ self.index # None /\ self.idmap # None
      /\ Len(Val(self.idmap)) = ntotal(Val(self.index))

\* C30: with more candidates than top_m >= 1, mmr_rerank stops after
\* exactly top_m selections and returns top_m pairs, each the id of a
\* different position of the candidate list
C30_ExactlyTopMDistinct ==
  Reranking =>
    /\ mmr.iteration <= mmr.top_m
    /\ Len(mmr.selected_indices) = mmr.iteration
    /\ \A r \in 1..Len(mmr.selected_indices) :
         /\ mmr.selected_indices[r] \in 1..Len(mmr.candidate_ids)
         /\ \A q \in 1..(r - 1) : mmr.selected_indices[q] # mmr.selected_indices[r]
    /\ mmr.pc = "returned" =>
         /\ mmr.iteration = mmr.top_m
         /\ Len(mmr.results) = mmr.top_m
         /\ \A r \in 1..mmr.top_m :
              mmr.results[r][1] = mmr.candidate_ids[mmr.selected_indices[r]]

C30_Witness ==
  /\ mmr.pc = "returned" /\ Len(mmr.candidate_ids) = 3 /\ mmr.top_m = 2
  /\ mmr.iteration = 2 /\ Len(mmr.results) = 2
  /\ mmr.results[1][1] # mmr.results[2][1]

====
